---- MODULE Spec2Model ----
(***************************************************************************)
(* Model of the syscall-interception sandbox of agent-datakit: the        *)
(* per-process virtual FD table, the pid -> FdTable registry with the     *)
(* fork/clone handlers, the mount table, the file syscall handlers and    *)
(* the chunked file I/O of the SQLite-backed VFS.                          *)
(***************************************************************************)
EXTENDS Integers, Sequences, FiniteSets, TLC

VARIABLES
  tables,     \* the FdTableInner behind each Arc<Mutex<..>>: table id -> inner
  FD_TABLES,  \* the registry: pid -> table id
  kin,        \* pairs of pids whose handles the program made to denote one table
  last,       \* the call that produced this state and what it returned
  mounts,     \* MountTable.mounts
  kfds,       \* the kernel's FD table of the guest: kernel FD -> open file
  objs,       \* the SqliteFile objects: object id -> ino, offset and dir_pos
  fs_data,    \* rows of table fs_data
  fs_inode,   \* rows of table fs_inode: ino -> mode and size
  fs_dentry,  \* rows of table fs_dentry
  fs_symlink, \* rows of table fs_symlink: ino -> target
  fs_seq,     \* the AUTOINCREMENT sequence of fs_inode: the largest ino ever used
  hist        \* the file calls made so far on the file under test

(***************************************************************************)
(* Bounds of the model.                                                    *)
(***************************************************************************)
\* largest virtual FD a table operation may name or produce
MaxVfd == 5
\* largest pid the kernel hands out to a child
MaxPid == 2
\* largest virtual FD a table call of the process-level specification names
ProcMaxVfd == 3
\* most characters of the sandbox path of a mount
MaxPathLen == 3
\* most mounts of the mount table
MaxMounts == 2
\* most bytes of a buffer handed to write or read
MaxLen == 4
\* bytes of one chunk of fs_data (65536 in the program, scaled down)
CHUNK_SIZE == 2
\* largest virtual FD of the traced guest
SysMaxVfd == 4
\* largest virtual FD of the guest that opens, reads and closes only
OpenMaxVfd == 5
\* largest virtual FD of the guest that uses the virtual mount only
VirtMaxVfd == 4
\* largest kernel FD of the guest (its limit of open files, less one)
MaxKfd == 4
\* bytes asked for by a read of the guest
ReadLen == 2
\* largest ino the store hands out
MaxIno == 3
\* most links of the chain of symlinks
MaxChain == 41
\* largest virtual FD of the table of the sandbox crate
SbxMaxVfd == 4

\* the parts of a mount specification
MaxParts == 4

(***************************************************************************)
(* Program constants.                                                      *)
(***************************************************************************)
STDIN_FILENO == 0
STDOUT_FILENO == 1
STDERR_FILENO == 2
FIRST_USER_FD == 3
I32_MAX == 2147483647
CLONE_FILES == 1024
O_CLOEXEC == 524288
ROOT_INO == 1
SEEK_SET == 0
SEEK_CUR == 1
SEEK_END == 2
O_CREAT == 64
ENOENT == 2
EIO == 5
EBADF == 9
EINVAL == 22
ENOSYS == 38
AT_FDCWD == -100
EACCES == 13
EMFILE == 24
S_IFMT == 61440
S_IFREG == 32768
S_IFDIR == 16384
S_IFLNK == 40960
DEFAULT_FILE_MODE == 33188
DEFAULT_DIR_MODE == 16877
SYMLINK_MODE == 41471
max_symlink_depth == 40
DT_UNKNOWN == 0
DT_DIR == 4
DT_REG == 8
DT_LNK == 10
ENOTDIR == 20
EFAULT == 14
DIRENT_HEADER == 19

\* Option<T>: None is the empty sequence, Some(x) the one-element sequence
None == <<>>
Some(x) == <<x>>

(***************************************************************************)
(* File operations objects (Arc<dyn FileOps>) and FD entries.              *)
(***************************************************************************)
\* PassthroughFile::new(fd, flags): a file-object that wraps a kernel FD
PassthroughFile(fd) == [kind |-> "PassthroughFile", fd |-> fd, obj |-> 0]

\* Arc<SqliteFile>: a virtual file-object, identified by its allocation obj
SqliteFile(obj) == [kind |-> "SqliteFile", fd |-> -1, obj |-> obj]

\* FileOps::as_raw_fd
as_raw_fd(file_ops) ==
  IF file_ops.kind = "PassthroughFile" THEN Some(file_ops.fd) ELSE None

FdEntry(file_ops, flags) == [file_ops |-> file_ops, flags |-> flags]

\* FdEntry::kernel_fd
kernel_fd(entry) == as_raw_fd(entry.file_ops)

(***************************************************************************)
(* HashMap<i32, FdEntry> and BinaryHeap<Reverse<i32>>.                     *)
(***************************************************************************)
\* HashMap::insert
MapInsert(m, k, v) == [x \in (DOMAIN m) \cup {k} |-> IF x = k THEN v ELSE m[x]]

\* HashMap::remove
MapRemove(m, k) == [x \in (DOMAIN m) \ {k} |-> m[x]]

\* HashMap::get(..).cloned()
MapGet(m, k) == IF k \in DOMAIN m THEN Some(m[k]) ELSE None

\* BinaryHeap::push on a min-heap, kept as an ascending sequence
RECURSIVE HeapPush(_, _)
HeapPush(h, x) ==
  IF h = <<>> THEN <<x>>
  ELSE IF x <= Head(h) THEN <<x>> \o h
  ELSE <<Head(h)>> \o HeapPush(Tail(h), x)

\* free_fds.clone().into_iter().filter(|fd| fd != vfd).collect()
HeapWithout(h, vfd) == SelectSeq(h, LAMBDA fd : fd # vfd)

\* (from..i32::MAX).find(|fd| !entries.contains_key(fd)); -1 stands for the
\* panic of expect("File descriptor table exhausted")
RECURSIVE FindUnused(_, _)
FindUnused(entries, from) ==
  IF from >= I32_MAX THEN -1
  ELSE IF from \notin DOMAIN entries THEN from
  ELSE FindUnused(entries, from + 1)

(***************************************************************************)
(* FdTableInner and the operations of FdTable under its mutex.            *)
(***************************************************************************)
\* FdTable::new
FdTableNew ==
  [entries |-> (STDIN_FILENO :> FdEntry(PassthroughFile(STDIN_FILENO), 0))
            @@ (STDOUT_FILENO :> FdEntry(PassthroughFile(STDOUT_FILENO), 0))
            @@ (STDERR_FILENO :> FdEntry(PassthroughFile(STDERR_FILENO), 0)),
   next_vfd |-> FIRST_USER_FD,
   free_fds |-> <<>>]

\* the vfd chosen by FdTable::allocate
AllocVfd(inner) ==
  IF inner.free_fds # <<>> THEN Head(inner.free_fds)
  ELSE IF inner.next_vfd = I32_MAX THEN FindUnused(inner.entries, FIRST_USER_FD)
  ELSE inner.next_vfd

\* allocate without the reuse of freed vfds: always hands out next_vfd
allocate_never_reuses(inner, file_ops, flags) ==
  [inner |-> [entries |-> MapInsert(inner.entries, inner.next_vfd, FdEntry(file_ops, flags)),
              next_vfd |-> inner.next_vfd + 1,
              free_fds |-> inner.free_fds],
   ret |-> inner.next_vfd]

\* FdTable::allocate: the table after the call and the vfd returned
allocate(inner, file_ops, flags) ==
  LET vfd == AllocVfd(inner)
      popped == IF inner.free_fds # <<>> THEN Tail(inner.free_fds) ELSE <<>>
      next == IF inner.free_fds = <<>> /\ inner.next_vfd # I32_MAX
              THEN inner.next_vfd + 1 ELSE inner.next_vfd
  IN [inner |-> [entries |-> MapInsert(inner.entries, vfd, FdEntry(file_ops, flags)),
                 next_vfd |-> next,
                 free_fds |-> popped],
      ret |-> vfd]

\* FdTable::allocate_min
allocate_min(inner, min_vfd, file_ops, flags) ==
  LET vfd == FindUnused(inner.entries, min_vfd)
  IN [inner |-> [entries |-> MapInsert(inner.entries, vfd, FdEntry(file_ops, flags)),
                 next_vfd |-> IF vfd >= inner.next_vfd THEN vfd + 1 ELSE inner.next_vfd,
                 free_fds |-> HeapWithout(inner.free_fds, vfd)],
      ret |-> vfd]

\* an allocate_at that leaves vfd on the free list
allocate_at_keeps_free(inner, vfd, file_ops, flags) ==
  [inner |-> [entries |-> MapInsert(inner.entries, vfd, FdEntry(file_ops, flags)),
              next_vfd |-> IF vfd >= inner.next_vfd THEN vfd + 1 ELSE inner.next_vfd,
              free_fds |-> inner.free_fds],
   ret |-> MapGet(inner.entries, vfd)]

\* FdTable::allocate_at
allocate_at(inner, vfd, file_ops, flags) ==
  [inner |-> [entries |-> MapInsert(inner.entries, vfd, FdEntry(file_ops, flags)),
              next_vfd |-> IF vfd >= inner.next_vfd THEN vfd + 1 ELSE inner.next_vfd,
              free_fds |-> HeapWithout(inner.free_fds, vfd)],
   ret |-> MapGet(inner.entries, vfd)]

\* FdTable::get
get(inner, vfd) == MapGet(inner.entries, vfd)

\* FdTable::translate
translate(inner, vfd) ==
  IF vfd \in DOMAIN inner.entries THEN kernel_fd(inner.entries[vfd]) ELSE None

\* a deallocate that forgets the vfd: it is not pushed on free_fds
deallocate_forgets_vfd(inner, vfd) ==
  IF vfd \notin DOMAIN inner.entries THEN [inner |-> inner, ret |-> None]
  ELSE [inner |-> [inner EXCEPT !.entries = MapRemove(inner.entries, vfd)],
        ret |-> Some(inner.entries[vfd])]

\* FdTable::deallocate
deallocate(inner, vfd) ==
  IF vfd \notin DOMAIN inner.entries THEN [inner |-> inner, ret |-> None]
  ELSE [inner |-> [entries |-> MapRemove(inner.entries, vfd),
                   next_vfd |-> inner.next_vfd,
                   free_fds |-> IF vfd >= FIRST_USER_FD
                                THEN HeapPush(inner.free_fds, vfd)
                                ELSE inner.free_fds],
        ret |-> Some(inner.entries[vfd])]

\* a duplicate whose new entry has flags 0
duplicate_clears_flags(inner, old_vfd) ==
  IF get(inner, old_vfd) = None THEN [inner |-> inner, ret |-> None]
  ELSE LET r == allocate(inner, inner.entries[old_vfd].file_ops, 0)
       IN [inner |-> r.inner, ret |-> Some(r.ret)]

\* FdTable::duplicate
duplicate(inner, old_vfd) ==
  IF get(inner, old_vfd) = None THEN [inner |-> inner, ret |-> None]
  ELSE LET entry == inner.entries[old_vfd]
           r == allocate(inner, entry.file_ops, entry.flags)
       IN [inner |-> r.inner, ret |-> Some(r.ret)]

\* FdTable::duplicate_at
duplicate_at(inner, old_vfd, new_vfd) ==
  IF get(inner, old_vfd) = None THEN [inner |-> inner, ret |-> None]
  ELSE LET entry == inner.entries[old_vfd]
       IN allocate_at(inner, new_vfd, entry.file_ops, entry.flags)

(***************************************************************************)
(* The mount table and the kernel's FD table at start-up.                  *)
(***************************************************************************)
\* MountTable::new
MountTableNew == <<>>

\* the kernel FDs the guest starts with: stdin, stdout and stderr
KernelStdio ==
  (STDIN_FILENO :> <<"stdin">>) @@ (STDOUT_FILENO :> <<"stdout">>)
    @@ (STDERR_FILENO :> <<"stderr">>)

(***************************************************************************)
(* Inputs of the table operations.                                         *)
(***************************************************************************)
\* file-objects handed to allocate, allocate_min and allocate_at
FileOpsInputs == {PassthroughFile(100), SqliteFile(1)}

\* flags handed to allocate, allocate_min and allocate_at
FlagInputs == {0, O_CLOEXEC}

\* a table id no live table uses: the allocation of Arc::new
FreshId(heap) == CHOOSE id \in 1..(Cardinality(DOMAIN heap) + 1) : id \notin DOMAIN heap

\* the heap without the tables no handle of the registry refers to (Arc drop)
Collect(heap, reg) ==
  [id \in {reg[q] : q \in DOMAIN reg} |-> heap[id]]

\* get_fd_table: tables.entry(pid).or_insert_with(FdTable::new).clone()
get_fd_table(reg, heap, pid) ==
  IF pid \in DOMAIN reg
  THEN [FD_TABLES |-> reg, tables |-> heap, id |-> reg[pid]]
  ELSE LET id == FreshId(heap)
       IN [FD_TABLES |-> MapInsert(reg, pid, id),
           tables |-> MapInsert(heap, id, FdTableNew),
           id |-> id]

\* the table the handler of an event of pid p works on
TableOf(p) ==
  LET g == get_fd_table(FD_TABLES, tables, p) IN g.tables[g.id]

\* the handles the program made to denote one table: all of them after
\* get_fd_table, which adds pid p alone when it creates p's table
KinAfterGet(p) == kin \cup {<<p, p>>}

\* the effect of one FdTable method called through the handle of pid p
Apply(p, op, args, inner, ret) ==
  LET g == get_fd_table(FD_TABLES, tables, p)
  IN /\ tables' = [g.tables EXCEPT ![g.id] = inner]
     /\ FD_TABLES' = g.FD_TABLES
     /\ kin' = KinAfterGet(p)
     /\ last' = [op |-> op, pid |-> p, args |-> args, ret |-> ret]
     /\ UNCHANGED <<mounts, kfds, objs, fs_data, fs_inode, fs_dentry, fs_symlink, fs_seq,
                    hist>>

\* a call of FdTable::allocate
Allocate(p, maxv, fos, fls) ==
  \E fo \in fos, fl \in fls :
    LET r == allocate(TableOf(p), fo, fl)
    IN /\ r.ret <= maxv
       /\ Apply(p, "allocate", <<>>, r.inner, Some(r.ret))

\* a call of FdTable::allocate_min
AllocateMin(p, vfds, maxv, fos, fls) ==
  \E min_vfd \in vfds, fo \in fos, fl \in fls :
    LET r == allocate_min(TableOf(p), min_vfd, fo, fl)
    IN /\ r.ret <= maxv
       /\ Apply(p, "allocate_min", <<min_vfd>>, r.inner, Some(r.ret))

\* a call of FdTable::allocate_at
AllocateAt(p, vfds, fos, fls) ==
  \E vfd \in vfds, fo \in fos, fl \in fls :
    LET r == allocate_at(TableOf(p), vfd, fo, fl)
    IN Apply(p, "allocate_at", <<vfd>>, r.inner, r.ret)

\* a call of FdTable::deallocate
Deallocate(p, vfds) ==
  \E vfd \in vfds :
    LET r == deallocate(TableOf(p), vfd)
    IN Apply(p, "deallocate", <<vfd>>, r.inner, r.ret)

\* a call of FdTable::duplicate
Duplicate(p, vfds, maxv) ==
  \E old_vfd \in vfds :
    LET r == duplicate(TableOf(p), old_vfd)
    IN /\ r.ret # None => r.ret[1] <= maxv
       /\ Apply(p, "duplicate", <<old_vfd>>, r.inner, r.ret)

\* a call of FdTable::duplicate_at
DuplicateAt(p, vfds) ==
  \E old_vfd \in vfds, new_vfd \in vfds :
    LET r == duplicate_at(TableOf(p), old_vfd, new_vfd)
    IN Apply(p, "duplicate_at", <<old_vfd, new_vfd>>, r.inner, r.ret)

(***************************************************************************)
(* One fresh FdTable, used through allocate and deallocate only.           *)
(***************************************************************************)
InitTable ==
  /\ tables = (1 :> FdTableNew)
  /\ FD_TABLES = (1 :> 1)
  /\ kin = {<<1, 1>>}
  /\ last = [op |-> "new", pid |-> 1, args |-> <<>>, ret |-> None]
  /\ mounts = MountTableNew
  /\ kfds = KernelStdio
  /\ objs = <<>>
  /\ fs_data = {}
  /\ fs_inode = <<>>
  /\ fs_dentry = {}
  /\ fs_symlink = <<>>
  /\ fs_seq = 0
  /\ hist = <<>>

AllocStep == Allocate(1, MaxVfd, FileOpsInputs, FlagInputs)

DeallocAnyStep == Deallocate(1, 0..MaxVfd)

NextAlloc == AllocStep \/ DeallocAnyStep

vars ==
  <<tables, FD_TABLES, kin, last, mounts, kfds, objs, fs_data, fs_inode, fs_dentry,
    fs_symlink, fs_seq, hist>>

SpecAlloc == InitTable /\ [][NextAlloc]_vars

(***************************************************************************)
(* One fresh FdTable whose entries have different flags, used through      *)
(* allocate, deallocate, duplicate and duplicate_at.                       *)
(***************************************************************************)
\* the vfds named by the calls: stderr and three user vfds
CopyVfds == STDERR_FILENO..(FIRST_USER_FD + 2)

CopyAllocStep == Allocate(1, FIRST_USER_FD + 2, FileOpsInputs, FlagInputs)

CopyDeallocStep == Deallocate(1, CopyVfds)

CopyDupStep == Duplicate(1, CopyVfds, FIRST_USER_FD + 2)

CopyDupAtStep == DuplicateAt(1, CopyVfds)

NextCopy == CopyAllocStep \/ CopyDeallocStep \/ CopyDupStep \/ CopyDupAtStep

SpecCopy == InitTable /\ [][NextCopy]_vars

(***************************************************************************)
(* One fresh FdTable, used through every method.                           *)
(***************************************************************************)
\* the vfds named by the calls: stderr and the user range
TableVfds == STDERR_FILENO..MaxVfd

AllocOneStep == Allocate(1, MaxVfd, FileOpsInputs, {0})

DeallocStep == Deallocate(1, TableVfds)

AllocMinStep == AllocateMin(1, TableVfds, MaxVfd, FileOpsInputs, {0})

AllocAtStep == AllocateAt(1, TableVfds, FileOpsInputs, {0})

DupStep == Duplicate(1, TableVfds, MaxVfd)

DupAtStep == DuplicateAt(1, TableVfds)

NextTable ==
  \/ AllocOneStep
  \/ DeallocStep
  \/ AllocMinStep
  \/ AllocAtStep
  \/ DupStep
  \/ DupAtStep

SpecTable == InitTable /\ [][NextTable]_vars

(***************************************************************************)
(* The pid -> FdTable registry and the fork / vfork / clone / clone3       *)
(* handlers; the handlers of every other syscall appear as the FdTable     *)
(* methods they call on the table of the calling pid.                      *)
(***************************************************************************)
\* deep_clone that gives the copied entries file-objects of their own
deep_clone_files(heap, id) ==
  LET new == FreshId(heap)
  IN [tables |-> MapInsert(heap, new,
                   [entries |-> [v \in DOMAIN heap[id].entries |->
                                   IF heap[id].entries[v].file_ops.kind = "SqliteFile"
                                   THEN [heap[id].entries[v] EXCEPT !.file_ops.obj = 0 - @]
                                   ELSE heap[id].entries[v]],
                    next_vfd |-> heap[id].next_vfd,
                    free_fds |-> heap[id].free_fds]),
      id |-> new]

\* deep_clone that hands back the table it was called on
deep_clone_shares(heap, id) == [tables |-> heap, id |-> id]

\* FdTable::deep_clone: a new table holding copies of the three fields
deep_clone(heap, id) ==
  LET new == FreshId(heap)
  IN [tables |-> MapInsert(heap, new,
                   [entries |-> heap[id].entries,
                    next_vfd |-> heap[id].next_vfd,
                    free_fds |-> heap[id].free_fds]),
      id |-> new]

\* a Clone of FdTable that copies the table instead of sharing it
fdtable_clone_copies(heap, id) ==
  LET new == CHOOSE i \in 1..(Cardinality(DOMAIN heap) + 1) : i \notin DOMAIN heap
  IN [tables |-> [i \in (DOMAIN heap) \cup {new} |-> IF i = new THEN heap[id] ELSE heap[i]],
      id |-> new]

\* #[derive(Clone)] on FdTable: Arc::clone, a second handle on the same table
fdtable_clone(heap, id) == [tables |-> heap, id |-> id]

\* insert_fd_table: tables.insert(pid, fd_table)
insert_fd_table(reg, pid, id) == MapInsert(reg, pid, id)

\* a test for flags equal to CLONE_FILES instead of the bit test
share_fds_exact(flags) == flags = CLONE_FILES

\* flags.bits() & CLONE_FILES != 0
share_fds(flags) == (flags \div CLONE_FILES) % 2 = 1

\* the handles denoting one table after pid c was registered with the result
\* of method ("deep_clone" or "clone") called on the handle of pid p
KinRegister(p, c, method) ==
  LET base == {pr \in KinAfterGet(p) : pr[1] # c /\ pr[2] # c}
      class == {pr[2] : pr \in {x \in base : x[1] = p}}
  IN IF method = "clone"
     THEN base \cup {<<c, c>>} \cup {<<c, x>> : x \in class} \cup {<<x, c>> : x \in class}
     ELSE base \cup {<<c, c>>}

\* the parent side of a fork-like handler once the injected call returned
\* result: registration of the child when result > 0, nothing otherwise
AfterInject(p, op, result, flags, method) ==
  LET g == get_fd_table(FD_TABLES, tables, p)
      h == IF method = "clone" THEN fdtable_clone(g.tables, g.id)
           ELSE deep_clone(g.tables, g.id)
      reg == insert_fd_table(g.FD_TABLES, result, h.id)
  IN /\ last' = [op |-> op, pid |-> p, args |-> <<result, flags>>, ret |-> Some(result)]
     /\ UNCHANGED <<mounts, kfds, objs, fs_data, fs_inode, fs_dentry, fs_symlink, fs_seq,
                    hist>>
     /\ IF result > 0
        THEN /\ FD_TABLES' = reg
             /\ tables' = Collect(h.tables, reg)
             /\ kin' = KinRegister(p, result, method)
        ELSE /\ FD_TABLES' = g.FD_TABLES
             /\ tables' = g.tables
             /\ kin' = KinAfterGet(p)

\* the pids whose syscalls are traced: the root process and every child
Procs == {1} \cup DOMAIN FD_TABLES

\* what the injected fork, vfork, clone or clone3 of pid p may return:
\* -EAGAIN, 0, or the pid of the new child (a pid no traced process has)
ForkResults(p) == {-11, 0} \cup ((1..MaxPid) \ Procs)

\* the flags argument of clone: none, SIGCHLD, CLONE_FILES, and the flags of
\* a thread (CLONE_VM | CLONE_FS | CLONE_FILES | CLONE_SIGHAND)
CloneFlagInputs == {0, 17, 1024, 3840}

\* handle_fork
handle_fork(p) ==
  \E result \in ForkResults(p) : AfterInject(p, "fork", result, 0, "deep_clone")

\* handle_vfork
handle_vfork(p) ==
  \E result \in ForkResults(p) : AfterInject(p, "vfork", result, 0, "deep_clone")

\* handle_clone
handle_clone(p) ==
  \E result \in ForkResults(p), flags \in CloneFlagInputs :
    AfterInject(p, "clone", result, flags,
                IF share_fds(flags) THEN "clone" ELSE "deep_clone")

\* handle_clone3
handle_clone3(p) ==
  \E result \in ForkResults(p), flags \in CloneFlagInputs :
    AfterInject(p, "clone3", result, flags, "deep_clone")

\* the vfd named by the table calls of the process-level specification: the
\* first user vfd; allocate and duplicate hand out the vfds up to ProcMaxVfd
ProcVfds == {FIRST_USER_FD}

\* the file-object the handlers of the process-level specification install
ProcFileOps == {SqliteFile(1)}

InitProc ==
  /\ tables = <<>>
  /\ FD_TABLES = <<>>
  /\ kin = {}
  /\ last = [op |-> "init_fd_tables", pid |-> 0, args |-> <<>>, ret |-> None]
  /\ mounts = MountTableNew
  /\ kfds = KernelStdio
  /\ objs = <<>>
  /\ fs_data = {}
  /\ fs_inode = <<>>
  /\ fs_dentry = {}
  /\ fs_symlink = <<>>
  /\ fs_seq = 0
  /\ hist = <<>>

ForkStep == \E p \in Procs : handle_fork(p)

VforkStep == \E p \in Procs : handle_vfork(p)

CloneStep == \E p \in Procs : handle_clone(p)

Clone3Step == \E p \in Procs : handle_clone3(p)

ProcAllocStep == \E p \in Procs : Allocate(p, ProcMaxVfd, ProcFileOps, {0})

ProcAllocMinStep == \E p \in Procs : AllocateMin(p, ProcVfds, ProcMaxVfd, ProcFileOps, {0})

ProcAllocAtStep == \E p \in Procs : AllocateAt(p, ProcVfds, ProcFileOps, {0})

ProcDeallocStep == \E p \in Procs : Deallocate(p, ProcVfds)

ProcDupStep == \E p \in Procs : Duplicate(p, ProcVfds, ProcMaxVfd)

ProcDupAtStep == \E p \in Procs : DuplicateAt(p, ProcVfds)

NextProc ==
  \/ ForkStep
  \/ VforkStep
  \/ CloneStep
  \/ Clone3Step
  \/ ProcAllocStep
  \/ ProcAllocMinStep
  \/ ProcAllocAtStep
  \/ ProcDeallocStep
  \/ ProcDupStep
  \/ ProcDupAtStep

SpecProc == InitProc /\ [][NextProc]_vars

(***************************************************************************)
(* The fork handler and the child it creates, as two tasks of the tracer:  *)
(* the injected fork returns to the parent's handler (the child then       *)
(* exists and runs), and the handler registers the child's table           *)
(* afterwards.  hist is the set of the children whose fork has returned    *)
(* and whose registration is still to come.                                *)
(***************************************************************************)
\* the processes that run: the root, the registered ones and the children
\* not registered yet
RaceProcs == {1} \cup DOMAIN FD_TABLES \cup {h.child : h \in hist}

\* the processes whose handler is between the injected fork and the
\* registration: they make no other syscall
InHandler == {h.parent : h \in hist}

InitRace ==
  /\ tables = <<>>
  /\ FD_TABLES = <<>>
  /\ kin = {}
  /\ last = [op |-> "init_fd_tables", pid |-> 0, args |-> <<>>, ret |-> None]
  /\ mounts = MountTableNew
  /\ kfds = KernelStdio
  /\ objs = <<>>
  /\ fs_data = {}
  /\ fs_inode = <<>>
  /\ fs_dentry = {}
  /\ fs_symlink = <<>>
  /\ fs_seq = 0
  /\ hist = {}

\* handle_syscall_event and handle_fork up to the return of the injected
\* fork with the pid of the child
RaceInjectStep ==
  \E p \in RaceProcs \ InHandler, c \in (1..MaxPid) \ RaceProcs :
    \E g \in {get_fd_table(FD_TABLES, tables, p)} :
      /\ FD_TABLES' = g.FD_TABLES
      /\ tables' = g.tables
      /\ kin' = KinAfterGet(p)
      /\ hist' = hist \cup {[parent |-> p, child |-> c]}
      /\ last' = [op |-> "inject", pid |-> p, args |-> <<c>>, ret |-> None]
      /\ UNCHANGED <<mounts, kfds, objs, fs_data, fs_inode, fs_dentry, fs_symlink,
                     fs_seq>>

\* handle_fork after the injected fork returned:
\* insert_fd_table(result, parent_fd_table.deep_clone())
RaceRegisterStep ==
  \E h \in hist :
    \E d \in {deep_clone(tables, FD_TABLES[h.parent])} :
      \E reg \in {insert_fd_table(FD_TABLES, h.child, d.id)} :
        /\ FD_TABLES' = reg
        /\ tables' = Collect(d.tables, reg)
        /\ kin' = KinRegister(h.parent, h.child, "deep_clone")
        /\ hist' = hist \ {h}
        /\ last' = [op |-> "fork", pid |-> h.parent, args |-> <<h.child, 0>>,
                    ret |-> Some(h.child)]
        /\ UNCHANGED <<mounts, kfds, objs, fs_data, fs_inode, fs_dentry, fs_symlink,
                       fs_seq>>

\* a syscall of a running process whose handler allocates a vfd
RaceAllocStep ==
  \E p \in RaceProcs \ InHandler : Allocate(p, ProcMaxVfd, FileOpsInputs, {0})

\* a syscall of a running process whose handler closes a vfd
RaceDeallocStep ==
  \E p \in RaceProcs \ InHandler : Deallocate(p, ProcVfds)

NextRace == RaceInjectStep \/ RaceRegisterStep \/ RaceAllocStep \/ RaceDeallocStep

SpecRace == InitRace /\ [][NextRace]_vars

(***************************************************************************)
(* Paths, the VFS behind a mount, and the mount table.  A path is the      *)
(* sequence of its characters.                                             *)
(***************************************************************************)
\* str::starts_with
starts_with(s, prefix) ==
  /\ Len(prefix) <= Len(s)
  /\ SubSeq(s, 1, Len(prefix)) = prefix

\* str::strip_prefix(prefix).unwrap_or("")
strip_prefix(s, prefix) ==
  IF starts_with(s, prefix) THEN SubSeq(s, Len(prefix) + 1, Len(s)) ELSE <<>>

\* str::trim_start_matches('/')
RECURSIVE trim_start_matches(_)
trim_start_matches(s) ==
  IF s # <<>> /\ Head(s) = "/" THEN trim_start_matches(Tail(s)) ELSE s

\* str::split('/')
RECURSIVE split(_)
split(s) ==
  IF \A i \in 1..Len(s) : s[i] # "/" THEN <<s>>
  ELSE LET i == CHOOSE k \in 1..Len(s) : s[k] = "/" /\ \A j \in 1..(k - 1) : s[j] # "/"
       IN <<SubSeq(s, 1, i - 1)>> \o split(SubSeq(s, i + 1, Len(s)))

\* Path::components: the root, a leading ".", and every piece that is
\* neither empty nor "."
components(path) ==
  LET pieces == split(path)
      IsNormal(x) == x # <<>> /\ x # <<".">>
      first == IF path # <<>> /\ Head(path) = "/" THEN << <<"/">> >>
               ELSE IF Head(pieces) = <<".">> THEN << <<".">> >>
               ELSE <<>>
  IN first \o SelectSeq(pieces, IsNormal)

\* PathBuf::join
join(base, path) ==
  IF path # <<>> /\ Head(path) = "/" THEN path
  ELSE IF base = <<>> \/ base[Len(base)] = "/" THEN base \o path
  ELSE base \o <<"/">> \o path

\* PassthroughVfs::new(host_root, sandbox_root)
PassthroughVfs(host_root, sandbox_root) ==
  [kind |-> "PassthroughVfs", host_root |-> host_root, sandbox_root |-> sandbox_root]

\* SqliteVfs::new(db_path, mount_point)
SqliteVfs(mount_point) ==
  [kind |-> "SqliteVfs", host_root |-> <<>>, sandbox_root |-> mount_point]

\* Vfs::translate_path of PassthroughVfs and of SqliteVfs: Some(path) for Ok,
\* None for Err(NotFound)
translate_path(vfs, path) ==
  LET sandbox_str == vfs.sandbox_root
  IN IF path = sandbox_str \/ starts_with(path, sandbox_str \o <<"/">>)
     THEN IF vfs.kind = "SqliteVfs"
          THEN Some(<<"__sqlite_vfs__">> \o path)
          ELSE LET relative == trim_start_matches(strip_prefix(path, sandbox_str))
               IN Some(IF relative = <<>> THEN vfs.host_root
                       ELSE join(vfs.host_root, relative))
     ELSE None

\* Vfs::is_virtual
is_virtual(vfs) == vfs.kind = "SqliteVfs"

MountPoint(sandbox_path, vfs) == [sandbox_path |-> sandbox_path, vfs |-> vfs]

\* sort_by_key(|m| Reverse(m.sandbox_path.components().count())): a stable
\* sort, the mount with the most components first
RECURSIVE sort_by_key(_)
sort_by_key(ms) ==
  IF ms = <<>> THEN <<>>
  ELSE LET m == Head(ms)
           rest == sort_by_key(Tail(ms))
           k == Cardinality({i \in 1..Len(rest) :
                  Len(components(rest[i].sandbox_path)) > Len(components(m.sandbox_path))})
       IN SubSeq(rest, 1, k) \o <<m>> \o SubSeq(rest, k + 1, Len(rest))

\* MountTable::add_mount
add_mount(ms, sandbox_path, vfs) ==
  sort_by_key(Append(ms, MountPoint(sandbox_path, vfs)))

\* MountTable::resolve: the first mount whose VFS translates the path
resolve(ms, path) ==
  LET ok == {i \in 1..Len(ms) : translate_path(ms[i].vfs, path) # None}
  IN IF ok = {} THEN None
     ELSE LET i == CHOOSE k \in ok : \A j \in ok : k <= j
          IN Some([vfs |-> ms[i].vfs,
                   translated |-> translate_path(ms[i].vfs, path)[1]])

\* the characters of the paths of the mount specification
PathChars == {"/", "a"}

\* the strings of at most n characters
Strings(n) == UNION {[1..k -> PathChars] : k \in 0..n}

\* the destinations of the mounts: absolute paths
SandboxPaths == {s \in Strings(MaxPathLen) : s # <<>> /\ s[1] = "/"}

\* the guest paths that are resolved: absolute paths
QueryPaths == {s \in Strings(MaxPathLen + 1) : s # <<>> /\ s[1] = "/"}

\* the host directory of the bind mounts
HostRoot == <<"/", "h">>

\* the start-up loop of the run command: a bind mount at dst
AddMountStep ==
  \E dst \in SandboxPaths :
    /\ Len(mounts) < MaxMounts
    /\ mounts' = add_mount(mounts, dst, PassthroughVfs(HostRoot, dst))
    /\ last' = [op |-> "add_mount", pid |-> 0, args |-> <<dst>>, ret |-> None]
    /\ UNCHANGED <<tables, FD_TABLES, kin, kfds, objs, fs_data, fs_inode, fs_dentry,
                   fs_symlink, fs_seq, hist>>

\* a handler resolves a guest path
ResolveStep ==
  \E path \in QueryPaths :
    /\ last' = [op |-> "resolve", pid |-> 0, args |-> <<path>>, ret |-> resolve(mounts, path)]
    /\ UNCHANGED <<tables, FD_TABLES, kin, mounts, kfds, objs, fs_data, fs_inode, fs_dentry,
                   fs_symlink, fs_seq, hist>>

InitMount ==
  /\ tables = <<>>
  /\ FD_TABLES = <<>>
  /\ kin = {}
  /\ last = [op |-> "new", pid |-> 0, args |-> <<>>, ret |-> None]
  /\ mounts = MountTableNew
  /\ kfds = KernelStdio
  /\ objs = <<>>
  /\ fs_data = {}
  /\ fs_inode = <<>>
  /\ fs_dentry = {}
  /\ fs_symlink = <<>>
  /\ fs_seq = 0
  /\ hist = <<>>

NextMount == AddMountStep \/ ResolveStep

SpecMount == InitMount /\ [][NextMount]_vars

(***************************************************************************)
(* The SQLite-backed file: rows of fs_data hold the bytes in chunks, the   *)
(* row of fs_inode holds the size, the SqliteFile object holds the offset. *)
(***************************************************************************)
Min(a, b) == IF a < b THEN a ELSE b

Max(a, b) == IF a > b THEN a ELSE b

\* the while loop of SqliteFile::write: one row per chunk of at most
\* CHUNK_SIZE bytes, the row at the same (ino, offset) deleted first
RECURSIVE write_chunks(_, _, _, _, _)
write_chunks(data, ino, offset, buf, written) ==
  IF written >= Len(buf) THEN [fs_data |-> data, written |-> written]
  ELSE LET chunk_offset == offset + written
           chunk_size == Min(CHUNK_SIZE, Len(buf) - written)
           chunk_data == SubSeq(buf, written + 1, written + chunk_size)
           deleted == {r \in data : ~(r.ino = ino /\ r.offset = chunk_offset)}
           row == [ino |-> ino, offset |-> chunk_offset, size |-> chunk_size,
                   data |-> chunk_data]
       IN write_chunks(deleted \cup {row}, ino, offset, buf, written + chunk_size)

\* a write that stores the first chunk only
SqliteFile_write_first_chunk(data, inode, file, buf) ==
  LET first == SubSeq(buf, 1, Min(CHUNK_SIZE, Len(buf)))
      w == write_chunks(data, file.ino, file.offset, first, 0)
  IN [fs_data |-> w.fs_data,
      fs_inode |-> [inode EXCEPT ![file.ino].size = Max(@, file.offset + w.written)],
      file |-> [file EXCEPT !.offset = @ + w.written],
      ret |-> Some(w.written)]

\* SqliteFile::write
SqliteFile_write(data, inode, file, buf) ==
  LET w == write_chunks(data, file.ino, file.offset, buf, 0)
      new_size == file.offset + w.written
  IN [fs_data |-> w.fs_data,
      fs_inode |-> [inode EXCEPT ![file.ino].size = Max(@, new_size)],
      file |-> [file EXCEPT !.offset = @ + w.written],
      ret |-> Some(w.written)]

\* SELECT .. WHERE ino = .. AND offset < end AND offset + size > start
\* ORDER BY offset
RECURSIVE order_by_offset(_)
order_by_offset(rows) ==
  IF rows = {} THEN <<>>
  ELSE LET r == CHOOSE x \in rows : \A y \in rows : x.offset <= y.offset
       IN <<r>> \o order_by_offset(rows \ {r})

\* the while loop of SqliteFile::read over the rows: copy the overlap of
\* each chunk with the read range into buf
RECURSIVE read_rows(_, _, _, _)
read_rows(rows, offset, buf, total_read) ==
  IF rows = <<>> THEN [buf |-> buf, total_read |-> total_read]
  ELSE LET row == Head(rows)
           chunk_start == row.offset
           chunk_end == row.offset + Len(row.data)
           read_start == offset
           read_end == offset + Len(buf)
           overlap_start == Max(chunk_start, read_start)
           overlap_end == Min(chunk_end, read_end)
           src_offset == overlap_start - chunk_start
           dst_offset == overlap_start - read_start
           len == overlap_end - overlap_start
       IN IF overlap_start < overlap_end
          THEN read_rows(Tail(rows), offset,
                 [i \in 1..Len(buf) |->
                    IF i > dst_offset /\ i <= dst_offset + len
                    THEN row.data[src_offset + (i - dst_offset)] ELSE buf[i]],
                 Max(total_read, dst_offset + len))
          ELSE read_rows(Tail(rows), offset, buf, total_read)

\* SqliteFile::read into a zeroed buffer of buf_len bytes
SqliteFile_read(data, file, buf_len) ==
  LET offset == file.offset
      end_offset == offset + buf_len
      rows == order_by_offset({r \in data : /\ r.ino = file.ino
                                            /\ r.offset < end_offset
                                            /\ r.offset + r.size > offset})
      rd == read_rows(rows, offset, [i \in 1..buf_len |-> 0], 0)
  IN [file |-> [file EXCEPT !.offset = @ + rd.total_read],
      buf |-> SubSeq(rd.buf, 1, rd.total_read),
      ret |-> Some(rd.total_read)]

\* SqliteFile::seek: None for Err(InvalidInput)
SqliteFile_seek(inode, file, offset, whence) ==
  LET new_offset == CASE whence = SEEK_SET -> offset
                      [] whence = SEEK_CUR -> file.offset + offset
                      [] whence = SEEK_END -> inode[file.ino].size + offset
                      [] OTHER -> -1
  IN IF whence \notin {SEEK_SET, SEEK_CUR, SEEK_END} \/ new_offset < 0
     THEN [file |-> file, ret |-> None]
     ELSE [file |-> [file EXCEPT !.offset = new_offset], ret |-> Some(new_offset)]

\* the bytes of the buffers
Bytes == {0, 1}

\* the buffers handed to write
WriteBufs == UNION {[1..k -> Bytes] : k \in 0..MaxLen}

\* the SqliteFile object and the inode of the file under test
FileObj == 1

FileIno == 2

\* the state after open_file created /f with O_CREAT: the root directory
\* (ino 1), the new inode with size 0 and no chunk, its dentry, and the
\* SqliteFile at offset 0
InitFile ==
  /\ tables = <<>>
  /\ FD_TABLES = <<>>
  /\ kin = {}
  /\ last = [op |-> "open_file", pid |-> 0, args |-> <<>>, ret |-> None]
  /\ mounts = MountTableNew
  /\ kfds = KernelStdio
  /\ objs = (FileObj :> [ino |-> FileIno, offset |-> 0, dir_pos |-> 0])
  /\ fs_data = {}
  /\ fs_inode = (ROOT_INO :> [mode |-> DEFAULT_DIR_MODE, size |-> 0])
                  @@ (FileIno :> [mode |-> DEFAULT_FILE_MODE, size |-> 0])
  /\ fs_dentry = {[name |-> <<"f">>, parent_ino |-> ROOT_INO, ino |-> FileIno]}
  /\ fs_symlink = <<>>
  /\ fs_seq = FileIno
  /\ hist = <<>>

\* one call on the file, recorded in hist
FileCall(op, args, file, buf, ret) ==
  /\ objs' = [objs EXCEPT ![FileObj] = file]
  /\ hist' = Append(hist, [op |-> op, args |-> args, buf |-> buf, ret |-> ret])
  /\ last' = [op |-> op, pid |-> 0, args |-> args, ret |-> ret]
  /\ UNCHANGED <<tables, FD_TABLES, kin, mounts, kfds, fs_dentry, fs_symlink, fs_seq>>

\* the first call: a write of any buffer
FileWriteStep ==
  \E buf \in WriteBufs :
    LET w == SqliteFile_write(fs_data, fs_inode, objs[FileObj], buf)
    IN /\ Len(hist) = 0
       /\ fs_data' = w.fs_data
       /\ fs_inode' = w.fs_inode
       /\ FileCall("write", <<buf>>, w.file, <<>>, w.ret)

\* the second call: a seek
FileSeekStep ==
  \E offset \in -1..1, whence \in {SEEK_SET, SEEK_CUR, SEEK_END} :
    LET s == SqliteFile_seek(fs_inode, objs[FileObj], offset, whence)
    IN /\ Len(hist) = 1
       /\ UNCHANGED <<fs_data, fs_inode>>
       /\ FileCall("seek", <<offset, whence>>, s.file, <<>>, s.ret)

\* the third call: a read of any length
FileReadStep ==
  \E buf_len \in 0..MaxLen :
    LET r == SqliteFile_read(fs_data, objs[FileObj], buf_len)
    IN /\ Len(hist) = 2
       /\ UNCHANGED <<fs_data, fs_inode>>
       /\ FileCall("read", <<buf_len>>, r.file, r.buf, r.ret)

NextFile == FileWriteStep \/ FileSeekStep \/ FileReadStep

SpecFile == InitFile /\ [][NextFile]_vars

(***************************************************************************)
(* The same file, written at any offset: writes and seeks in any order.    *)
(***************************************************************************)
\* the offsets a write starts at
WriteOffsets == 0..3

\* buffers of every length up to MaxLen, the empty one included
LenBufs == {[i \in 1..k |-> 1] : k \in 0..MaxLen}

\* one call on the file, not recorded in hist
OffsetCall(op, args, file, ret) ==
  /\ objs' = [objs EXCEPT ![FileObj] = file]
  /\ last' = [op |-> op, pid |-> 0, args |-> args, ret |-> ret]
  /\ UNCHANGED <<tables, FD_TABLES, kin, mounts, kfds, fs_dentry, fs_symlink,
                 fs_seq, hist>>

OffsetWriteStep ==
  \E buf \in LenBufs :
    \E w \in {SqliteFile_write(fs_data, fs_inode, objs[FileObj], buf)} :
      /\ objs[FileObj].offset \in WriteOffsets
      /\ fs_data' = w.fs_data
      /\ fs_inode' = w.fs_inode
      /\ OffsetCall("write", <<buf>>, w.file, w.ret)

OffsetSeekStep ==
  \E offset \in WriteOffsets :
    \E k \in {SqliteFile_seek(fs_inode, objs[FileObj], offset, SEEK_SET)} :
      /\ UNCHANGED <<fs_data, fs_inode>>
      /\ OffsetCall("seek", <<offset, SEEK_SET>>, k.file, k.ret)

NextOffset == OffsetWriteStep \/ OffsetSeekStep

SpecOffset == InitFile /\ [][NextOffset]_vars

(***************************************************************************)
(* The kernel's side of a syscall the sandbox injects or lets through:     *)
(* the FD table of the guest in the kernel, kernel FD -> the file it is    *)
(* open on.                                                                *)
(***************************************************************************)
\* the FD the kernel hands out: the lowest one that is not open
kernel_lowest_free(k) ==
  CHOOSE fd \in 0..Cardinality(DOMAIN k) :
    fd \notin DOMAIN k /\ \A j \in 0..(fd - 1) : j \in DOMAIN k

\* openat(2) of an existing file; EMFILE at the limit of open files
kernel_open(k, file) ==
  LET fd == kernel_lowest_free(k)
  IN IF fd > MaxKfd THEN [kfds |-> k, ret |-> -EMFILE]
     ELSE [kfds |-> MapInsert(k, fd, file), ret |-> fd]

\* close(2)
kernel_close(k, fd) ==
  IF fd \in DOMAIN k THEN [kfds |-> MapRemove(k, fd), ret |-> 0]
  ELSE [kfds |-> k, ret |-> -EBADF]

\* dup(2)
kernel_dup(k, fd) ==
  IF fd \in DOMAIN k THEN kernel_open(k, k[fd]) ELSE [kfds |-> k, ret |-> -EBADF]

\* dup2(2)
kernel_dup2(k, oldfd, newfd) ==
  IF oldfd \notin DOMAIN k \/ newfd < 0 \/ newfd > MaxKfd THEN [kfds |-> k, ret |-> -EBADF]
  ELSE [kfds |-> MapInsert(k, newfd, k[oldfd]), ret |-> newfd]

\* read(2) of len bytes from a file that holds them: the count, and the
\* file the bytes come from
kernel_read(k, fd, len) ==
  IF fd \in DOMAIN k THEN [ret |-> len, source |-> Some(k[fd])]
  ELSE [ret |-> -EBADF, source |-> None]

(***************************************************************************)
(* Opening a file of the SQLite-backed VFS.                                *)
(***************************************************************************)
\* the loop of SqliteVfs::resolve_path over the components of the path
RECURSIVE walk(_, _, _)
walk(dentry, current_ino, comps) ==
  IF comps = <<>> THEN Some(current_ino)
  ELSE IF Head(comps) = <<>> THEN walk(dentry, current_ino, Tail(comps))
  ELSE LET found == {d \in dentry : d.parent_ino = current_ino /\ d.name = Head(comps)}
       IN IF found = {} THEN None
          ELSE walk(dentry, (CHOOSE d \in found : TRUE).ino, Tail(comps))

\* SqliteVfs::resolve_path: Some(ino), None for Err(NotFound)
resolve_path(vfs, dentry, path) ==
  LET mount_str == vfs.sandbox_root
  IN IF path = mount_str THEN Some(ROOT_INO)
     ELSE IF starts_with(path, mount_str \o <<"/">>)
     THEN LET relative == SubSeq(path, Len(mount_str) + 2, Len(path))
          IN IF relative = <<>> THEN Some(ROOT_INO)
             ELSE walk(dentry, ROOT_INO, split(relative))
     ELSE None

\* the index of the last '/' of s, 0 when it has none
last_sep(s) ==
  IF \A i \in 1..Len(s) : s[i] # "/" THEN 0
  ELSE CHOOSE i \in 1..Len(s) : s[i] = "/" /\ \A j \in (i + 1)..Len(s) : s[j] # "/"

\* s without the separators it ends in
RECURSIVE trim_end(_)
trim_end(s) ==
  IF Len(s) > 1 /\ s[Len(s)] = "/" THEN trim_end(SubSeq(s, 1, Len(s) - 1))
  ELSE IF Len(s) > 1 /\ s[Len(s)] = "." /\ s[Len(s) - 1] = "/"
  THEN trim_end(SubSeq(s, 1, Len(s) - 1))
  ELSE s

\* Path::parent
parent(path) ==
  LET t == trim_end(path)
      i == last_sep(t)
  IN IF t = <<>> \/ t = <<"/">> THEN None
     ELSE IF i = 0 THEN Some(<<>>)
     ELSE IF i = 1 THEN Some(<<"/">>)
     ELSE Some(trim_end(SubSeq(t, 1, i - 1)))

\* Path::file_name
file_name(path) ==
  LET t == trim_end(path)
  IN IF t = <<>> \/ t = <<"/">> THEN None
     ELSE Some(SubSeq(t, last_sep(t) + 1, Len(t)))

\* INSERT INTO fs_inode (mode, ..., size, ...) followed by SELECT
\* last_insert_rowid(): AUTOINCREMENT hands out one more than the largest
\* ino the table ever held
insert_inode(inode, seq, mode, size) ==
  [fs_inode |-> MapInsert(inode, seq + 1, [mode |-> mode, size |-> size]),
   fs_seq |-> seq + 1,
   ino |-> seq + 1]

\* UNIQUE(parent_ino, name) of fs_dentry: whether the row may be inserted
dentry_unique(dentry, parent_ino, name) ==
  \A d \in dentry : ~(d.parent_ino = parent_ino /\ d.name = name)

\* SqliteVfs::create_file with mode 0o644: a new regular inode of size 0 and
\* its dentry; ret is Some(ino), or None with the VfsError in err.  The
\* inode row stays when the insert of the dentry fails
create_file(vfs, inode, seq, dentry, path) ==
  LET parent_path == parent(path)
      name == file_name(path)
      parent_ino == IF parent_path = None THEN None
                    ELSE resolve_path(vfs, dentry, parent_path[1])
      i == insert_inode(inode, seq, DEFAULT_FILE_MODE, 0)
  IN IF parent_path = None \/ name = None \/ parent_ino = None
     THEN [fs_inode |-> inode, fs_seq |-> seq, fs_dentry |-> dentry, ret |-> None,
           err |-> IF parent_path # None /\ name = None THEN "InvalidInput" ELSE "NotFound"]
     ELSE IF ~dentry_unique(dentry, parent_ino[1], name[1])
     THEN [fs_inode |-> i.fs_inode, fs_seq |-> i.fs_seq, fs_dentry |-> dentry,
           ret |-> None, err |-> "Other"]
     ELSE [fs_inode |-> i.fs_inode, fs_seq |-> i.fs_seq,
           fs_dentry |-> dentry \cup
             {[name |-> name[1], parent_ino |-> parent_ino[1], ino |-> i.ino]},
           ret |-> Some(i.ino), err |-> ""]

\* SqliteFile::new: a new object at offset 0; ret is its id
SqliteFile_new(o, ino) ==
  LET id == CHOOSE i \in 1..(Cardinality(DOMAIN o) + 1) : i \notin DOMAIN o
  IN [objs |-> MapInsert(o, id, [ino |-> ino, offset |-> 0, dir_pos |-> 0]), ret |-> id]

\* SqliteVfs::open_file: ret is Some(object id), or None with the VfsError
\* in err
open_file(vfs, st, path, flags) ==
  LET found == resolve_path(vfs, st.fs_dentry, path)
      created == create_file(vfs, st.fs_inode, st.fs_seq, st.fs_dentry, path)
      kept == [st EXCEPT !.fs_inode = created.fs_inode, !.fs_seq = created.fs_seq,
                         !.fs_dentry = created.fs_dentry]
  IN IF found # None
     THEN LET f == SqliteFile_new(st.objs, found[1])
          IN [st |-> [st EXCEPT !.objs = f.objs], ret |-> Some(f.ret), err |-> ""]
     ELSE IF (flags \div O_CREAT) % 2 = 0
     THEN [st |-> st, ret |-> None, err |-> "NotFound"]
     ELSE IF created.ret = None
     THEN [st |-> kept, ret |-> None, err |-> created.err]
     ELSE LET f == SqliteFile_new(st.objs, created.ret[1])
          IN [st |-> [kept EXCEPT !.objs = f.objs], ret |-> Some(f.ret), err |-> ""]

(***************************************************************************)
(* The handlers of openat, read, close, dup and dup2.  A handler works on  *)
(* st: the FD table of the caller (inner), the kernel's FD table (kfds),   *)
(* the SqliteFile objects and the tables of the database.  Its ret is      *)
(* Some(value) when it answers the syscall and None when the original      *)
(* syscall is to be used; info records what it did.                        *)
(***************************************************************************)
NoInfo == [entry |-> None, injected |-> None, source |-> None, buf |-> <<>>]

\* every VfsError answered with EIO
vfs_errno_always_eio(err) == -EIO

\* the errno a handler returns for a VfsError
vfs_errno(err) ==
  CASE err = "NotFound" -> -ENOENT
    [] err = "PermissionDenied" -> -EACCES
    [] OTHER -> -EIO

\* handle_openat with dirfd AT_FDCWD
handle_openat(st, ms, path, flags) ==
  LET r == resolve(ms, path)
  IN IF r # None /\ is_virtual(r[1].vfs)
     THEN LET f == open_file(r[1].vfs, st, path, flags)
          IN IF f.ret # None
             THEN LET a == allocate(st.inner, SqliteFile(f.ret[1]), flags)
                  IN [st |-> [f.st EXCEPT !.inner = a.inner], ret |-> Some(a.ret),
                      info |-> NoInfo]
             ELSE [st |-> f.st, ret |-> Some(vfs_errno(f.err)), info |-> NoInfo]
     ELSE LET ko == kernel_open(st.kfds, IF r # None THEN r[1].translated ELSE path)
          IN IF ko.ret >= 0
             THEN LET a == allocate(st.inner, PassthroughFile(ko.ret), flags)
                  IN [st |-> [st EXCEPT !.inner = a.inner, !.kfds = ko.kfds],
                      ret |-> Some(a.ret), info |-> [NoInfo EXCEPT !.injected = Some(ko.ret)]]
             ELSE [st |-> st, ret |-> Some(ko.ret),
                   info |-> [NoInfo EXCEPT !.injected = Some(ko.ret)]]

\* handle_read
handle_read(st, vfd, buf_len) ==
  LET e == get(st.inner, vfd)
  IN IF e = None THEN [st |-> st, ret |-> None, info |-> NoInfo]
     ELSE IF kernel_fd(e[1]) # None
     THEN LET kr == kernel_read(st.kfds, kernel_fd(e[1])[1], buf_len)
          IN [st |-> st, ret |-> Some(kr.ret), info |-> [NoInfo EXCEPT !.source = kr.source]]
     ELSE LET obj == e[1].file_ops.obj
              rd == SqliteFile_read(st.fs_data, st.objs[obj], buf_len)
          IN [st |-> [st EXCEPT !.objs[obj] = rd.file], ret |-> rd.ret,
              info |-> [NoInfo EXCEPT !.source = Some(<<"ino", st.objs[obj].ino>>),
                                      !.buf = rd.buf]]

\* handle_close
handle_close(st, vfd) ==
  LET d == deallocate(st.inner, vfd)
  IN IF d.ret = None THEN [st |-> st, ret |-> None, info |-> NoInfo]
     ELSE IF kernel_fd(d.ret[1]) # None
     THEN LET kc == kernel_close(st.kfds, kernel_fd(d.ret[1])[1])
          IN [st |-> [st EXCEPT !.inner = d.inner, !.kfds = kc.kfds], ret |-> Some(kc.ret),
              info |-> [NoInfo EXCEPT !.entry = d.ret]]
     ELSE [st |-> [st EXCEPT !.inner = d.inner], ret |-> Some(0),
           info |-> [NoInfo EXCEPT !.entry = d.ret]]

\* handle_dup
handle_dup(st, old_vfd) ==
  LET d == duplicate(st.inner, old_vfd)
  IN IF d.ret = None THEN [st |-> st, ret |-> None, info |-> NoInfo]
     ELSE LET new_vfd == d.ret[1]
              t == translate(d.inner, old_vfd)
          IN IF t = None
             THEN [st |-> [st EXCEPT !.inner = d.inner], ret |-> Some(new_vfd), info |-> NoInfo]
             ELSE LET kd == kernel_dup(st.kfds, t[1])
                  IN IF kd.ret < 0
                     THEN [st |-> [st EXCEPT !.inner = deallocate(d.inner, new_vfd).inner],
                           ret |-> Some(kd.ret),
                           info |-> [NoInfo EXCEPT !.injected = Some(kd.ret)]]
                     ELSE [st |-> [st EXCEPT !.inner = d.inner, !.kfds = kd.kfds],
                           ret |-> Some(new_vfd),
                           info |-> [NoInfo EXCEPT !.injected = Some(kd.ret)]]

\* a dup2 of a virtual file that installs a new SqliteFile object on the
\* same inode instead of the object of old_vfd
handle_dup2_new_object(st, old_vfd, new_vfd) ==
  LET e == get(st.inner, old_vfd)
  IN IF e = None THEN [st |-> st, ret |-> None, info |-> NoInfo]
     ELSE IF kernel_fd(e[1]) # None
     THEN LET kd == kernel_dup(st.kfds, kernel_fd(e[1])[1])
          IN IF kd.ret < 0
             THEN [st |-> st, ret |-> Some(kd.ret), info |-> NoInfo]
             ELSE [st |-> [st EXCEPT
                     !.inner = allocate_at(st.inner, new_vfd, PassthroughFile(kd.ret), 0).inner,
                     !.kfds = kd.kfds],
                   ret |-> Some(new_vfd), info |-> NoInfo]
     ELSE LET f == SqliteFile_new(st.objs, st.objs[e[1].file_ops.obj].ino)
          IN [st |-> [st EXCEPT
                  !.inner = allocate_at(st.inner, new_vfd, SqliteFile(f.ret), 0).inner,
                  !.objs = f.objs],
              ret |-> Some(new_vfd), info |-> NoInfo]

\* handle_dup2
handle_dup2(st, old_vfd, new_vfd) ==
  LET old_entry == get(st.inner, old_vfd)
      old_new_entry == get(st.inner, new_vfd)
  IN IF old_entry = None THEN [st |-> st, ret |-> None, info |-> NoInfo]
     ELSE IF kernel_fd(old_entry[1]) # None
     THEN LET kd == kernel_dup(st.kfds, kernel_fd(old_entry[1])[1])
              closed == IF old_new_entry # None /\ kernel_fd(old_new_entry[1]) # None
                        THEN kernel_close(kd.kfds, kernel_fd(old_new_entry[1])[1]).kfds
                        ELSE kd.kfds
          IN IF kd.ret < 0
             THEN [st |-> st, ret |-> Some(kd.ret),
                   info |-> [NoInfo EXCEPT !.injected = Some(kd.ret)]]
             ELSE [st |-> [st EXCEPT
                     !.inner = allocate_at(st.inner, new_vfd, PassthroughFile(kd.ret), 0).inner,
                     !.kfds = closed],
                   ret |-> Some(new_vfd),
                   info |-> [NoInfo EXCEPT !.injected = Some(kd.ret), !.entry = old_new_entry]]
     ELSE [st |-> [st EXCEPT
             !.inner = allocate_at(st.inner, new_vfd, old_entry[1].file_ops, 0).inner],
           ret |-> Some(new_vfd), info |-> [NoInfo EXCEPT !.entry = old_new_entry]]

\* a dup3 that closes the kernel FD of new_vfd before it duplicates the
\* kernel FD of old_vfd
handle_dup3_close_first(st, old_vfd, new_vfd, flags) ==
  LET old_entry == get(st.inner, old_vfd)
      old_new_entry == get(st.inner, new_vfd)
  IN IF old_entry = None THEN [st |-> st, ret |-> None, info |-> NoInfo]
     ELSE IF kernel_fd(old_entry[1]) # None
     THEN LET closed == IF old_new_entry # None /\ kernel_fd(old_new_entry[1]) # None
                        THEN kernel_close(st.kfds, kernel_fd(old_new_entry[1])[1]).kfds
                        ELSE st.kfds
              kd == kernel_dup(closed, kernel_fd(old_entry[1])[1])
          IN IF kd.ret < 0
             THEN [st |-> [st EXCEPT !.kfds = closed], ret |-> Some(kd.ret),
                   info |-> [NoInfo EXCEPT !.injected = Some(kd.ret)]]
             ELSE [st |-> [st EXCEPT
                     !.inner = allocate_at(st.inner, new_vfd, PassthroughFile(kd.ret),
                                           flags).inner,
                     !.kfds = kd.kfds],
                   ret |-> Some(new_vfd),
                   info |-> [NoInfo EXCEPT !.injected = Some(kd.ret), !.entry = old_new_entry]]
     ELSE [st |-> [st EXCEPT
             !.inner = allocate_at(st.inner, new_vfd, old_entry[1].file_ops, flags).inner],
           ret |-> Some(new_vfd), info |-> [NoInfo EXCEPT !.entry = old_new_entry]]

\* handle_dup3
handle_dup3(st, old_vfd, new_vfd, flags) ==
  LET old_entry == get(st.inner, old_vfd)
      old_new_entry == get(st.inner, new_vfd)
  IN IF old_entry = None THEN [st |-> st, ret |-> None, info |-> NoInfo]
     ELSE IF kernel_fd(old_entry[1]) # None
     THEN LET kd == kernel_dup(st.kfds, kernel_fd(old_entry[1])[1])
              closed == IF old_new_entry # None /\ kernel_fd(old_new_entry[1]) # None
                        THEN kernel_close(kd.kfds, kernel_fd(old_new_entry[1])[1]).kfds
                        ELSE kd.kfds
          IN IF kd.ret < 0
             THEN [st |-> st, ret |-> Some(kd.ret),
                   info |-> [NoInfo EXCEPT !.injected = Some(kd.ret)]]
             ELSE [st |-> [st EXCEPT
                     !.inner = allocate_at(st.inner, new_vfd, PassthroughFile(kd.ret),
                                           flags).inner,
                     !.kfds = closed],
                   ret |-> Some(new_vfd),
                   info |-> [NoInfo EXCEPT !.injected = Some(kd.ret), !.entry = old_new_entry]]
     ELSE [st |-> [st EXCEPT
             !.inner = allocate_at(st.inner, new_vfd, old_entry[1].file_ops, flags).inner],
           ret |-> Some(new_vfd), info |-> [NoInfo EXCEPT !.entry = old_new_entry]]

\* the body of handle_fcntl, with the vfd of the duplicate chosen by alloc
fcntl_with(alloc(_, _, _, _), st, vfd, cmd, arg) ==
  LET t == translate(st.inner, vfd)
      flags == IF cmd = "F_DUPFD_CLOEXEC" THEN O_CLOEXEC ELSE 0
  IN IF t = None THEN [st |-> st, ret |-> None, info |-> NoInfo]
     ELSE IF cmd \in {"F_DUPFD", "F_DUPFD_CLOEXEC"}
     THEN LET kd == kernel_dup(st.kfds, t[1])
              a == alloc(st.inner, arg, PassthroughFile(kd.ret), flags)
          IN IF kd.ret >= 0
             THEN [st |-> [st EXCEPT !.inner = a.inner, !.kfds = kd.kfds],
                   ret |-> Some(a.ret), info |-> [NoInfo EXCEPT !.injected = Some(kd.ret)]]
             ELSE [st |-> st, ret |-> Some(kd.ret),
                   info |-> [NoInfo EXCEPT !.injected = Some(kd.ret)]]
     ELSE LET result == IF t[1] \in DOMAIN st.kfds THEN 0 ELSE -EBADF
          IN [st |-> st, ret |-> Some(result),
              info |-> [NoInfo EXCEPT !.injected = Some(result)]]

\* allocate with the signature of allocate_min: the minimum is not used
allocate_any(inner, min_vfd, file_ops, flags) == allocate(inner, file_ops, flags)

\* an fcntl whose duplicate gets the vfd that allocate hands out
handle_fcntl_allocate(st, vfd, cmd, arg) == fcntl_with(allocate_any, st, vfd, cmd, arg)

\* handle_fcntl: cmd is F_DUPFD, F_DUPFD_CLOEXEC or another command
handle_fcntl(st, vfd, cmd, arg) == fcntl_with(allocate_min, st, vfd, cmd, arg)

\* dispatch_syscall: the answer of the handler, or the original syscall
\* when the handler returned None
dispatch_syscall(handled) ==
  IF handled = None THEN [kind |-> "Syscall"] ELSE [kind |-> "Value", value |-> handled[1]]

(***************************************************************************)
(* One traced guest that opens, reads, closes and duplicates FDs.          *)
(***************************************************************************)
SysPid == 1

\* the mount point of the SQLite-backed VFS and of the bind mount
VirtMount == <<"/", "v">>

BindMount == <<"/", "b">>

\* the files of the SQLite-backed VFS and their bytes
InoA == 2

InoB == 3

ContentA == <<1, 0, 1>>

ContentB == <<0, 1, 1>>

\* the paths the guest opens: a file under the virtual mount, a file under
\* the bind mount, a file outside every mount
SysPaths == {VirtMount \o <<"/", "a">>, BindMount \o <<"/", "x">>, <<"/", "y">>}

\* the vfds the guest names
SysVfds == FIRST_USER_FD..SysMaxVfd

\* the paths of the guest that uses the virtual mount only: two files and a
\* name that does not exist
VirtPaths ==
  {VirtMount \o <<"/", "a">>, VirtMount \o <<"/", "b">>, VirtMount \o <<"/", "c">>}

\* the vfds that guest names
VirtVfds == FIRST_USER_FD..VirtMaxVfd

\* the state the handlers of the guest work on
SysState ==
  [inner |-> tables[FD_TABLES[SysPid]], kfds |-> kfds, objs |-> objs,
   fs_data |-> fs_data, fs_inode |-> fs_inode, fs_dentry |-> fs_dentry,
   fs_seq |-> fs_seq]

\* the table behind the handle of thread or process t
GuestInner(t) == tables[FD_TABLES[t]]

\* the SqliteFile objects that an entry of the table still holds (Arc drop)
LiveObjs(inner, o) ==
  [id \in {inner.entries[v].file_ops.obj :
             v \in {u \in DOMAIN inner.entries :
                      inner.entries[u].file_ops.kind = "SqliteFile"}} |-> o[id]]

\* handle_syscall_event: the handler's answer h is returned to the guest,
\* or, when the handler returned None, the original syscall runs in the
\* kernel with outcome t
SysEvent(maxv, op, args, h, t) ==
  LET passed == dispatch_syscall(h.ret).kind = "Syscall"
  IN /\ h.st.inner.next_vfd <= maxv + 1
     /\ tables' = [tables EXCEPT ![FD_TABLES[SysPid]] = h.st.inner]
     /\ kfds' = IF passed THEN t.kfds ELSE h.st.kfds
     /\ objs' = LiveObjs(h.st.inner, h.st.objs)
     /\ fs_inode' = h.st.fs_inode
     /\ fs_dentry' = h.st.fs_dentry
     /\ fs_seq' = h.st.fs_seq
     /\ last' = [op |-> op, pid |-> SysPid, args |-> args, ret |-> h.ret,
                 result |-> IF passed THEN t.ret ELSE h.ret[1],
                 info |-> IF passed THEN [NoInfo EXCEPT !.source = t.source] ELSE h.info]
     /\ UNCHANGED <<FD_TABLES, kin, mounts, fs_data, fs_symlink, hist>>

\* an openat of the guest
Openat(paths, maxv) ==
  \E path \in paths :
    LET h == handle_openat(SysState, mounts, path, 0)
    IN SysEvent(maxv, "openat", <<path>>, h, [kfds |-> kfds, ret |-> 0, source |-> None])

\* a read of the guest
Read(vfds, maxv) ==
  \E vfd \in vfds :
    LET h == handle_read(SysState, vfd, ReadLen)
        kr == kernel_read(kfds, vfd, ReadLen)
    IN SysEvent(maxv, "read", <<vfd, ReadLen>>, h,
                [kfds |-> kfds, ret |-> kr.ret, source |-> kr.source])

\* a close of the guest
Close(vfds, maxv) ==
  \E vfd \in vfds :
    LET h == handle_close(SysState, vfd)
        kc == kernel_close(kfds, vfd)
    IN SysEvent(maxv, "close", <<vfd>>, h,
                [kfds |-> kc.kfds, ret |-> kc.ret, source |-> None])

\* a dup of the guest
Dup(vfds, maxv) ==
  \E vfd \in vfds :
    LET h == handle_dup(SysState, vfd)
        kd == kernel_dup(kfds, vfd)
    IN SysEvent(maxv, "dup", <<vfd>>, h,
                [kfds |-> kd.kfds, ret |-> kd.ret, source |-> None])

\* a dup2 of the guest
Dup2(vfds, maxv) ==
  \E old_vfd \in vfds, new_vfd \in vfds :
    LET h == handle_dup2(SysState, old_vfd, new_vfd)
        kd == kernel_dup2(kfds, old_vfd, new_vfd)
    IN SysEvent(maxv, "dup2", <<old_vfd, new_vfd>>, h,
                [kfds |-> kd.kfds, ret |-> kd.ret, source |-> None])

\* the guest at start-up: the table of FdTable::new, stdin, stdout and stderr
\* open in the kernel, the two mounts, and the database with files a and b
InitSys ==
  /\ tables = (1 :> FdTableNew)
  /\ FD_TABLES = (SysPid :> 1)
  /\ kin = {<<SysPid, SysPid>>}
  /\ last = [op |-> "new", pid |-> SysPid, args |-> <<>>, ret |-> None,
             result |-> 0, info |-> NoInfo]
  /\ mounts = add_mount(add_mount(MountTableNew, VirtMount, SqliteVfs(VirtMount)),
                        BindMount, PassthroughVfs(HostRoot, BindMount))
  /\ kfds = KernelStdio
  /\ objs = <<>>
  /\ fs_data = write_chunks(write_chunks({}, InoA, 0, ContentA, 0).fs_data,
                            InoB, 0, ContentB, 0).fs_data
  /\ fs_inode = (ROOT_INO :> [mode |-> DEFAULT_DIR_MODE, size |-> 0])
                  @@ (InoA :> [mode |-> DEFAULT_FILE_MODE, size |-> Len(ContentA)])
                  @@ (InoB :> [mode |-> DEFAULT_FILE_MODE, size |-> Len(ContentB)])
  /\ fs_dentry = {[name |-> <<"a">>, parent_ino |-> ROOT_INO, ino |-> InoA],
                  [name |-> <<"b">>, parent_ino |-> ROOT_INO, ino |-> InoB]}
  /\ fs_symlink = <<>>
  /\ fs_seq = InoB
  /\ hist = <<>>

OpenatStep == Openat(SysPaths, SysMaxVfd)

ReadStep == Read(SysVfds, SysMaxVfd)

CloseStep == Close(SysVfds, SysMaxVfd)

DupSysStep == Dup(SysVfds, SysMaxVfd)

Dup2Step == Dup2(SysVfds, SysMaxVfd)

NextSys == OpenatStep \/ ReadStep \/ CloseStep \/ DupSysStep \/ Dup2Step

SpecSys == InitSys /\ [][NextSys]_vars

(***************************************************************************)
(* The same guest without dup and dup2: it opens, reads and closes.        *)
(***************************************************************************)
\* the vfds that guest names
OpenVfds == FIRST_USER_FD..OpenMaxVfd

PlainOpenatStep == Openat(SysPaths, OpenMaxVfd)

PlainReadStep == Read(OpenVfds, OpenMaxVfd)

PlainCloseStep == Close(OpenVfds, OpenMaxVfd)

NextOpen == PlainOpenatStep \/ PlainReadStep \/ PlainCloseStep

SpecOpen == InitSys /\ [][NextOpen]_vars

(***************************************************************************)
(* The same guest using files of the virtual mount only.                   *)
(***************************************************************************)
VirtOpenatStep == Openat(VirtPaths, VirtMaxVfd)

VirtReadStep == Read(VirtVfds, VirtMaxVfd)

VirtCloseStep == Close(VirtVfds, VirtMaxVfd)

VirtDupStep == Dup(VirtVfds, VirtMaxVfd)

VirtDup2Step == Dup2(VirtVfds, VirtMaxVfd)

NextVirt == VirtOpenatStep \/ VirtReadStep \/ VirtCloseStep \/ VirtDupStep \/ VirtDup2Step

SpecVirt == InitSys /\ [][NextVirt]_vars

(***************************************************************************)
(* The same guest opening paths of the virtual mount with and without      *)
(* O_CREAT, and closing them.                                              *)
(***************************************************************************)
\* the paths: a file, a missing name, a name below a missing directory, and
\* the file spelled with a trailing "."
CreatPaths ==
  {VirtMount \o <<"/", "a">>, VirtMount \o <<"/", "c">>,
   VirtMount \o <<"/", "x", "/", "y">>, VirtMount \o <<"/", "a", "/", ".">>}

\* an openat of the guest with the given flags; the store hands out one
\* inode more than MaxIno
CreatOpenatStep ==
  \E path \in CreatPaths, flags \in {0, O_CREAT} :
    \E h \in {handle_openat(SysState, mounts, path, flags)} :
      /\ h.st.fs_seq <= MaxIno + 1
      /\ SysEvent(VirtMaxVfd, "openat", <<path, flags>>, h,
                  [kfds |-> kfds, ret |-> 0, source |-> None])

CreatCloseStep == Close(VirtVfds, VirtMaxVfd)

NextCreat == CreatOpenatStep \/ CreatCloseStep

SpecCreat == InitSys /\ [][NextCreat]_vars

(***************************************************************************)
(* The same guest using fcntl next to openat, dup and close.               *)
(***************************************************************************)
\* the commands of fcntl: the two that duplicate, and one that does not
FcntlCmds == {"F_DUPFD", "F_DUPFD_CLOEXEC", "F_GETFD"}

\* the user vfds of this guest: two
FcntlUserVfds == {FIRST_USER_FD, FIRST_USER_FD + 1}

\* the vfds the guest hands to fcntl, and the least vfds it asks for: stdin
\* and the user vfds
FcntlVfds == {STDIN_FILENO} \cup FcntlUserVfds

\* an fcntl of the guest; arg is the least vfd asked for
FcntlStep ==
  \E vfd \in FcntlVfds, cmd \in FcntlCmds, arg \in FcntlVfds :
    \E h \in {handle_fcntl(SysState, vfd, cmd, arg)} :
      SysEvent(FIRST_USER_FD + 1, "fcntl", <<vfd, cmd, arg>>, h,
               [kfds |-> kfds,
                ret |-> IF vfd \in DOMAIN kfds THEN 0 ELSE -EBADF, source |-> None])

\* the guest opens the file of the bind mount
FcntlOpenatStep == Openat({BindMount \o <<"/", "x">>}, FIRST_USER_FD + 1)

FcntlDupStep == Dup(FcntlUserVfds, FIRST_USER_FD + 1)

FcntlCloseStep == Close(FcntlUserVfds, FIRST_USER_FD + 1)

NextFcntl == FcntlStep \/ FcntlOpenatStep \/ FcntlDupStep \/ FcntlCloseStep

SpecFcntl == InitSys /\ [][NextFcntl]_vars

(***************************************************************************)
(* The handlers that translate the FD argument and inject the syscall:     *)
(* lseek, pread64, pwrite64, readv, writev, mmap and ioctl.  ret is the    *)
(* handler's answer, None when the original syscall is to be used; call is *)
(* the FD argument of the syscall the handler injected, None when it       *)
(* injected nothing.                                                       *)
(***************************************************************************)
\* the kernel's answer to a syscall on fd that needs fd to be open
kernel_fd_call(k, fd) == IF fd \in DOMAIN k THEN 0 ELSE -EBADF

\* handle_lseek
handle_lseek(st, virtual_fd) ==
  LET t == translate(st.inner, virtual_fd)
  IN IF t # None
     THEN [ret |-> Some(kernel_fd_call(st.kfds, t[1])), call |-> Some(t[1])]
     ELSE [ret |-> None, call |-> None]

\* handle_pread64
handle_pread64(st, virtual_fd) ==
  LET t == translate(st.inner, virtual_fd)
  IN IF t # None
     THEN [ret |-> Some(kernel_fd_call(st.kfds, t[1])), call |-> Some(t[1])]
     ELSE [ret |-> None, call |-> None]

\* handle_pwrite64
handle_pwrite64(st, virtual_fd) ==
  LET t == translate(st.inner, virtual_fd)
  IN IF t # None
     THEN [ret |-> Some(kernel_fd_call(st.kfds, t[1])), call |-> Some(t[1])]
     ELSE [ret |-> None, call |-> None]

\* handle_readv
handle_readv(st, virtual_fd) ==
  LET t == translate(st.inner, virtual_fd)
  IN IF t # None
     THEN [ret |-> Some(kernel_fd_call(st.kfds, t[1])), call |-> Some(t[1])]
     ELSE [ret |-> None, call |-> None]

\* handle_writev
handle_writev(st, virtual_fd) ==
  LET t == translate(st.inner, virtual_fd)
  IN IF t # None
     THEN [ret |-> Some(kernel_fd_call(st.kfds, t[1])), call |-> Some(t[1])]
     ELSE [ret |-> None, call |-> None]

\* handle_mmap: fd -1 is an anonymous mapping
handle_mmap(st, virtual_fd) ==
  LET t == translate(st.inner, virtual_fd)
  IN IF virtual_fd = -1 THEN [ret |-> None, call |-> None]
     ELSE IF t # None
     THEN [ret |-> Some(kernel_fd_call(st.kfds, t[1])), call |-> Some(t[1])]
     ELSE [ret |-> None, call |-> None]

\* handle_ioctl: a vfd equal to its kernel FD is let through
handle_ioctl(st, virtual_fd) ==
  LET t == translate(st.inner, virtual_fd)
  IN IF t # None
     THEN IF virtual_fd = t[1] THEN [ret |-> None, call |-> None]
          ELSE [ret |-> Some(kernel_fd_call(st.kfds, t[1])), call |-> Some(t[1])]
     ELSE [ret |-> None, call |-> None]

\* handle_fcntl with a command that does not duplicate, in the same form
fcntl_call(st, virtual_fd) ==
  LET h == handle_fcntl(st, virtual_fd, "F_GETFD", 0)
  IN [ret |-> h.ret,
      call |-> IF h.ret = None THEN None ELSE translate(st.inner, virtual_fd)]

(***************************************************************************)
(* The same guest making the syscalls that name one FD on the vfds it      *)
(* opened on the virtual and on the bind mount.                            *)
(***************************************************************************)
FdSyscalls ==
  {"lseek", "pread64", "pwrite64", "readv", "writev", "mmap", "ioctl", "fcntl"}

\* the handler of each of these syscalls
fd_handler(name, st, virtual_fd) ==
  CASE name = "lseek" -> handle_lseek(st, virtual_fd)
    [] name = "pread64" -> handle_pread64(st, virtual_fd)
    [] name = "pwrite64" -> handle_pwrite64(st, virtual_fd)
    [] name = "readv" -> handle_readv(st, virtual_fd)
    [] name = "writev" -> handle_writev(st, virtual_fd)
    [] name = "mmap" -> handle_mmap(st, virtual_fd)
    [] name = "ioctl" -> handle_ioctl(st, virtual_fd)
    [] OTHER -> fcntl_call(st, virtual_fd)

\* the FDs the guest hands to these syscalls: -1, stdin and its user vfds
FdCallVfds == {-1, STDIN_FILENO} \cup FcntlUserVfds

\* one of these syscalls of the guest: reached is the FD argument of the
\* syscall that runs in the kernel, the injected one or, when the handler
\* returned None, the original one
FdCallStep ==
  \E name \in FdSyscalls, virtual_fd \in FdCallVfds :
    \E h \in {fd_handler(name, SysState, virtual_fd)} :
      LET passed == dispatch_syscall(h.ret).kind = "Syscall"
          reached == IF passed THEN virtual_fd ELSE h.call[1]
      IN /\ last' = [op |-> name, pid |-> SysPid, args |-> <<virtual_fd>>, ret |-> h.ret,
                     result |-> kernel_fd_call(kfds, reached),
                     info |-> NoInfo, reached |-> reached]
         /\ UNCHANGED <<tables, FD_TABLES, kin, mounts, kfds, objs, fs_data, fs_inode,
                        fs_dentry, fs_symlink, fs_seq, hist>>

FdCallOpenatStep ==
  Openat({VirtMount \o <<"/", "a">>, BindMount \o <<"/", "x">>}, FIRST_USER_FD + 1)

FdCallCloseStep == Close(FcntlUserVfds, FIRST_USER_FD + 1)

NextFdCall == FdCallStep \/ FdCallOpenatStep \/ FdCallCloseStep

SpecFdCall == InitSys /\ [][NextFdCall]_vars

(***************************************************************************)
(* The handlers of socket and pipe2, and the guest that obtains kernel FDs *)
(* in every way a handler does: openat, dup, dup2, fcntl, socket, pipe2.   *)
(***************************************************************************)
\* socket(2)
kernel_socket(k) == kernel_open(k, <<"socket">>)

\* pipe2(2): both ends or none
kernel_pipe2(k) ==
  LET r == kernel_open(k, <<"pipe", "r">>)
      w == kernel_open(r.kfds, <<"pipe", "w">>)
  IN IF r.ret < 0 \/ w.ret < 0 THEN [kfds |-> k, ret |-> -EMFILE, fds |-> <<>>]
     ELSE [kfds |-> w.kfds, ret |-> 0, fds |-> <<r.ret, w.ret>>]

\* handle_socket
handle_socket(st) ==
  LET ks == kernel_socket(st.kfds)
  IN IF ks.ret >= 0
     THEN LET a == allocate(st.inner, PassthroughFile(ks.ret), 0)
          IN [st |-> [st EXCEPT !.inner = a.inner, !.kfds = ks.kfds], ret |-> Some(a.ret),
              info |-> [NoInfo EXCEPT !.injected = Some(ks.ret)]]
     ELSE [st |-> st, ret |-> Some(ks.ret), info |-> [NoInfo EXCEPT !.injected = Some(ks.ret)]]

\* handle_pipe2 with a pipefd array in guest memory: buf is the pair of vfds
\* written back to it
handle_pipe2(st, flags) ==
  LET kp == kernel_pipe2(st.kfds)
  IN IF kp.ret = 0
     THEN LET r == allocate(st.inner, PassthroughFile(kp.fds[1]), flags)
              w == allocate(r.inner, PassthroughFile(kp.fds[2]), flags)
          IN [st |-> [st EXCEPT !.inner = w.inner, !.kfds = kp.kfds], ret |-> Some(kp.ret),
              info |-> [NoInfo EXCEPT !.injected = Some(kp.ret), !.buf = <<r.ret, w.ret>>]]
     ELSE [st |-> st, ret |-> Some(kp.ret), info |-> [NoInfo EXCEPT !.injected = Some(kp.ret)]]

\* a socket of the guest
SocketStep ==
  \E h \in {handle_socket(SysState)} :
    SysEvent(FIRST_USER_FD + 1, "socket", <<>>, h, [kfds |-> kfds, ret |-> 0, source |-> None])

\* a pipe2 of the guest
Pipe2Step ==
  \E flags \in FlagInputs :
    \E h \in {handle_pipe2(SysState, flags)} :
      SysEvent(FIRST_USER_FD + 1, "pipe2", <<flags>>, h,
               [kfds |-> kfds, ret |-> 0, source |-> None])

\* an fcntl(F_DUPFD) of the guest
LeakFcntlStep ==
  \E vfd \in FcntlUserVfds :
    \E h \in {handle_fcntl(SysState, vfd, "F_DUPFD", FIRST_USER_FD)} :
      SysEvent(FIRST_USER_FD + 1, "fcntl", <<vfd, "F_DUPFD", FIRST_USER_FD>>, h,
               [kfds |-> kfds,
                ret |-> IF vfd \in DOMAIN kfds THEN 0 ELSE -EBADF, source |-> None])

LeakOpenatStep ==
  Openat({VirtMount \o <<"/", "a">>, BindMount \o <<"/", "x">>}, FIRST_USER_FD + 1)

LeakCloseStep == Close(FcntlUserVfds, FIRST_USER_FD + 1)

LeakDupStep == Dup(FcntlUserVfds, FIRST_USER_FD + 1)

LeakDup2Step == Dup2(FcntlUserVfds, FIRST_USER_FD + 1)

NextLeak ==
  \/ LeakOpenatStep
  \/ LeakCloseStep
  \/ LeakDupStep
  \/ LeakDup2Step
  \/ LeakFcntlStep
  \/ SocketStep
  \/ Pipe2Step

SpecLeak == InitSys /\ [][NextLeak]_vars

(***************************************************************************)
(* Two threads of one guest that share the FdTable (clone with             *)
(* CLONE_FILES).  A handler is an async task: at every guest.inject(..)    *)
(* .await the handler of the other thread may run.  hist is the set of the *)
(* dup2 and dup3 handlers that are waiting at an await: pc tells which     *)
(* injected syscall the kernel has run.                                    *)
(***************************************************************************)
Threads == {1, 2}

\* the threads whose handler is at an await: they make no other syscall
Waiting == {h.tid : h \in hist}

\* the vfds the threads duplicate: stdin and the first user vfd
ThreadVfds == {STDIN_FILENO, FIRST_USER_FD}

InitThreads ==
  /\ tables = (1 :> FdTableNew)
  /\ FD_TABLES = [t \in Threads |-> 1]
  /\ kin = Threads \X Threads
  /\ last = [op |-> "new", pid |-> SysPid, args |-> <<>>, ret |-> None,
             result |-> 0, info |-> NoInfo]
  /\ mounts = add_mount(add_mount(MountTableNew, VirtMount, SqliteVfs(VirtMount)),
                        BindMount, PassthroughVfs(HostRoot, BindMount))
  /\ kfds = KernelStdio
  /\ objs = <<>>
  /\ fs_data = write_chunks({}, InoA, 0, ContentA, 0).fs_data
  /\ fs_inode = (ROOT_INO :> [mode |-> DEFAULT_DIR_MODE, size |-> 0])
                  @@ (InoA :> [mode |-> DEFAULT_FILE_MODE, size |-> Len(ContentA)])
  /\ fs_dentry = {[name |-> <<"a">>, parent_ino |-> ROOT_INO, ino |-> InoA]}
  /\ fs_symlink = <<>>
  /\ fs_seq = InoA
  /\ hist = {}

\* the effect of a part of a handler of thread t on the shared table, the
\* kernel's FDs and the handlers that wait
ThreadEvent(t, op, args, inner, k, o, waiting, ret, result, reached) ==
  /\ tables' = [tables EXCEPT ![FD_TABLES[t]] = inner]
  /\ kfds' = k
  /\ objs' = o
  /\ hist' = waiting
  /\ last' = [op |-> op, pid |-> t, args |-> args, ret |-> ret, result |-> result,
              info |-> NoInfo, reached |-> reached]
  /\ UNCHANGED <<FD_TABLES, kin, mounts, fs_data, fs_inode, fs_dentry, fs_symlink, fs_seq>>

\* handle_dup2 and handle_dup3 up to the first await: both entries are read;
\* with a passthrough source dup(old_kernel_fd) is injected and the kernel
\* runs it; with a virtual source the handler runs to its end
ThreadDupToStep ==
  \E t \in Threads \ Waiting, op \in {"dup2", "dup3"}, old_vfd \in ThreadVfds,
     new_vfd \in {FIRST_USER_FD} :
    \E flags \in {0} :
      LET old_entry == get(GuestInner(t), old_vfd)
          old_new_entry == get(GuestInner(t), new_vfd)
          kd == kernel_dup(kfds, kernel_fd(old_entry[1])[1])
      IN /\ old_entry # None
         /\ IF kernel_fd(old_entry[1]) # None
            THEN ThreadEvent(t, op, <<old_vfd, new_vfd>>, GuestInner(t), kd.kfds, objs,
                   hist \cup {[tid |-> t, op |-> op, pc |-> "dup", old_vfd |-> old_vfd,
                               new_vfd |-> new_vfd, flags |-> flags,
                               old_new_entry |-> old_new_entry,
                               new_kernel_fd |-> kd.ret]},
                   None, 0, None)
            ELSE ThreadEvent(t, op, <<old_vfd, new_vfd>>,
                   allocate_at(GuestInner(t), new_vfd, old_entry[1].file_ops, flags).inner,
                   kfds, objs, hist, Some(new_vfd), new_vfd, None)

\* the handler after the injected dup returned: it answers the error, or
\* injects close(kernel_fd) of the entry that was at new_vfd and the kernel
\* runs it, or, with no kernel FD to close, installs the entry and returns
ThreadAfterDupStep ==
  \E h \in {g \in hist : g.pc = "dup"} :
    LET inner == GuestInner(h.tid)
        rest == hist \ {h}
        args == <<h.old_vfd, h.new_vfd>>
    IN IF h.new_kernel_fd < 0
       THEN ThreadEvent(h.tid, h.op, args, inner, kfds, objs, rest,
                        Some(h.new_kernel_fd), h.new_kernel_fd, None)
       ELSE IF h.old_new_entry # None /\ kernel_fd(h.old_new_entry[1]) # None
       THEN ThreadEvent(h.tid, h.op, args, inner,
                        kernel_close(kfds, kernel_fd(h.old_new_entry[1])[1]).kfds, objs,
                        rest \cup {[h EXCEPT !.pc = "close"]}, None, 0,
                        kernel_fd(h.old_new_entry[1]))
       ELSE ThreadEvent(h.tid, h.op, args,
                        allocate_at(inner, h.new_vfd, PassthroughFile(h.new_kernel_fd),
                                    h.flags).inner,
                        kfds, LiveObjs(inner, objs), rest, Some(h.new_vfd), h.new_vfd, None)

\* the handler after the injected close returned: allocate_at(new_vfd, ..)
ThreadInstallStep ==
  \E h \in {g \in hist : g.pc = "close"} :
    ThreadEvent(h.tid, h.op, <<h.old_vfd, h.new_vfd>>,
                allocate_at(GuestInner(h.tid), h.new_vfd, PassthroughFile(h.new_kernel_fd),
                            h.flags).inner,
                kfds, objs, hist \ {h}, Some(h.new_vfd), h.new_vfd, None)

\* an lseek of a thread: handle_lseek translates the vfd and injects
ThreadLseekStep ==
  \E t \in Threads \ Waiting, vfd \in {FIRST_USER_FD} :
    \E h \in {handle_lseek([SysState EXCEPT !.inner = GuestInner(t)], vfd)} :
      ThreadEvent(t, "lseek", <<vfd>>, GuestInner(t), kfds, objs, hist, h.ret,
                  IF h.ret = None THEN kernel_fd_call(kfds, vfd) ELSE h.ret[1],
                  IF h.ret = None THEN Some(vfd) ELSE h.call)

\* an openat of a thread: handle_openat has one await, after which it
\* allocates the vfd
ThreadOpenatStep ==
  \E t \in Threads \ Waiting,
     path \in {VirtMount \o <<"/", "a">>, BindMount \o <<"/", "x">>} :
    \E h \in {handle_openat([SysState EXCEPT !.inner = GuestInner(t)], mounts, path, 0)} :
      /\ h.st.inner.next_vfd <= FIRST_USER_FD + 1
      /\ ThreadEvent(t, "openat", <<path>>, h.st.inner, h.st.kfds, h.st.objs, hist,
                     h.ret, h.ret[1], None)

NextThreads ==
  \/ ThreadDupToStep
  \/ ThreadAfterDupStep
  \/ ThreadInstallStep
  \/ ThreadLseekStep
  \/ ThreadOpenatStep

SpecThreads == InitThreads /\ [][NextThreads]_vars

(***************************************************************************)
(* Two threads that call allocate, allocate_min and duplicate on one       *)
(* shared FdTable at the same time.  Every method locks the mutex for its  *)
(* whole body; duplicate is get followed by allocate, two locked sections  *)
(* between which the other thread may run.  hist gives for each thread     *)
(* where its call is: idle, between the two sections of duplicate (dup),   *)
(* or returned (done) with the vfd in ret and the entry it asked for; seen *)
(* is the table as the first section of duplicate found it.                *)
(***************************************************************************)
Idle == [pc |-> "idle", ret |-> None, entry |-> None, seen |-> None]

\* a lock that hands out the table as the caller saw it in its previous
\* section instead of the table as it is
lock_stale(inner, seen) == IF seen = None THEN inner ELSE seen[1]

\* self.inner.lock(): the section works on the table as it is now
lock(inner, seen) == inner

InitConc ==
  /\ tables = (1 :> FdTableNew)
  /\ FD_TABLES = [t \in Threads |-> 1]
  /\ kin = Threads \X Threads
  /\ last = [op |-> "new", pid |-> 1, args |-> <<>>, ret |-> None]
  /\ mounts = MountTableNew
  /\ kfds = KernelStdio
  /\ objs = <<>>
  /\ fs_data = {}
  /\ fs_inode = <<>>
  /\ fs_dentry = {}
  /\ fs_symlink = <<>>
  /\ fs_seq = 0
  /\ hist = [t \in Threads |-> Idle]

\* a locked section of thread t: the table after it and where t's call is
ConcSection(t, op, args, inner, ret, call) ==
  /\ tables' = [tables EXCEPT ![FD_TABLES[t]] = inner]
  /\ hist' = [hist EXCEPT ![t] = call]
  /\ last' = [op |-> op, pid |-> t, args |-> args, ret |-> ret]
  /\ UNCHANGED <<FD_TABLES, kin, mounts, kfds, objs, fs_data, fs_inode, fs_dentry,
                 fs_symlink, fs_seq>>

\* FdTable::allocate called by a thread
ConcAllocateStep ==
  \E t \in {u \in Threads : hist[u].pc = "idle"}, fo \in FileOpsInputs, fl \in FlagInputs :
    \E r \in {allocate(lock(GuestInner(t), None), fo, fl)} :
      /\ r.ret <= MaxVfd
      /\ ConcSection(t, "allocate", <<>>, r.inner, Some(r.ret),
                     [Idle EXCEPT !.pc = "done", !.ret = Some(r.ret),
                                  !.entry = Some(FdEntry(fo, fl))])

\* FdTable::allocate_min called by a thread
ConcAllocateMinStep ==
  \E t \in {u \in Threads : hist[u].pc = "idle"}, min_vfd \in FIRST_USER_FD..MaxVfd,
     fo \in FileOpsInputs :
    \E r \in {allocate_min(lock(GuestInner(t), None), min_vfd, fo, 0)} :
      /\ r.ret <= MaxVfd
      /\ ConcSection(t, "allocate_min", <<min_vfd>>, r.inner, Some(r.ret),
                     [Idle EXCEPT !.pc = "done", !.ret = Some(r.ret),
                                  !.entry = Some(FdEntry(fo, 0))])

\* FdTable::duplicate called by a thread, first section: self.get(old_vfd)?
ConcDupGetStep ==
  \E t \in {u \in Threads : hist[u].pc = "idle"}, old_vfd \in STDERR_FILENO..MaxVfd :
    \E e \in {get(lock(GuestInner(t), None), old_vfd)} :
      ConcSection(t, "get", <<old_vfd>>, GuestInner(t), e,
                  IF e = None THEN [Idle EXCEPT !.pc = "done"]
                  ELSE [Idle EXCEPT !.pc = "dup", !.entry = e,
                                    !.seen = Some(GuestInner(t))])

\* FdTable::duplicate, second section:
\* Some(self.allocate(entry.file_ops.clone(), entry.flags))
ConcDupAllocateStep ==
  \E t \in {u \in Threads : hist[u].pc = "dup"} :
    \E r \in {allocate(lock(GuestInner(t), hist[t].seen), hist[t].entry[1].file_ops,
                       hist[t].entry[1].flags)} :
      /\ r.ret <= MaxVfd
      /\ ConcSection(t, "duplicate", <<>>, r.inner, Some(r.ret),
                     [hist[t] EXCEPT !.pc = "done", !.ret = Some(r.ret)])

\* both calls have returned; the threads go on, and one of them may first
\* deallocate a vfd
ConcReturnStep ==
  /\ \A t \in Threads : hist[t].pc = "done"
  /\ \E vfd \in FIRST_USER_FD..(MaxVfd + 1) :
       \E d \in {deallocate(lock(GuestInner(1), None), vfd)} :
         /\ tables' = [tables EXCEPT ![1] = d.inner]
         /\ hist' = [t \in Threads |-> Idle]
         /\ last' = [op |-> "deallocate", pid |-> 1, args |-> <<vfd>>, ret |-> d.ret]
         /\ UNCHANGED <<FD_TABLES, kin, mounts, kfds, objs, fs_data, fs_inode, fs_dentry,
                        fs_symlink, fs_seq>>

NextConc ==
  \/ ConcAllocateStep
  \/ ConcAllocateMinStep
  \/ ConcDupGetStep
  \/ ConcDupAllocateStep
  \/ ConcReturnStep

SpecConc == InitConc /\ [][NextConc]_vars

(***************************************************************************)
(* Two handlers that open paths of the virtual mount with O_CREAT at the   *)
(* same time.  They share the connection of the SqliteVfs (Arc<Connection>)*)
(* and every statement is awaited, so the statements of the two creates    *)
(* interleave.  hist.rowid is last_insert_rowid() of the connection,       *)
(* hist.dentry_seq the AUTOINCREMENT sequence of fs_dentry, hist.tasks     *)
(* tells where each handler is: own is the inode its INSERT created, ino   *)
(* the value it read back.                                                 *)
(***************************************************************************)
NoCreate == [pc |-> "idle", path |-> <<>>, parent_ino |-> 0, own |-> None, ino |-> None,
             ret |-> None]

\* the paths the handlers open: two new names and the existing file
CreatePaths ==
  {VirtMount \o <<"/", "c">>, VirtMount \o <<"/", "d">>, VirtMount \o <<"/", "a">>}

InitCreate ==
  /\ tables = (1 :> FdTableNew)
  /\ FD_TABLES = [t \in Threads |-> 1]
  /\ kin = Threads \X Threads
  /\ last = [op |-> "new", pid |-> SysPid, args |-> <<>>, ret |-> None]
  /\ mounts = add_mount(MountTableNew, VirtMount, SqliteVfs(VirtMount))
  /\ kfds = KernelStdio
  /\ objs = <<>>
  /\ fs_data = {}
  /\ fs_inode = (ROOT_INO :> [mode |-> DEFAULT_DIR_MODE, size |-> 0])
                  @@ (InoA :> [mode |-> DEFAULT_FILE_MODE, size |-> 0])
  /\ fs_dentry = {[name |-> <<"a">>, parent_ino |-> ROOT_INO, ino |-> InoA]}
  /\ fs_symlink = <<>>
  /\ fs_seq = InoA
  /\ hist = [rowid |-> 1, dentry_seq |-> 1, tasks |-> [t \in Threads |-> NoCreate]]

\* one awaited statement of the handler t
CreateEvent(t, op, inode, seq, dentry, conn_rowid, dentry_seq, task) ==
  /\ fs_inode' = inode
  /\ fs_seq' = seq
  /\ fs_dentry' = dentry
  /\ hist' = [rowid |-> conn_rowid, dentry_seq |-> dentry_seq,
              tasks |-> [hist.tasks EXCEPT ![t] = task]]
  /\ last' = [op |-> op, pid |-> t, args |-> <<task.path>>, ret |-> task.ret]
  /\ UNCHANGED <<tables, FD_TABLES, kin, mounts, kfds, objs, fs_data, fs_symlink>>

\* open_file: resolve_path(path); an existing path is opened, a missing one
\* goes on into create_file, which resolves the parent directory
CreateResolveStep ==
  \E t \in {u \in Threads : hist.tasks[u].pc = "idle"}, path \in CreatePaths :
    LET vfs == SqliteVfs(VirtMount)
        found == resolve_path(vfs, fs_dentry, path)
        parent_ino == resolve_path(vfs, fs_dentry, parent(path)[1])
    IN CreateEvent(t, "resolve_path", fs_inode, fs_seq, fs_dentry, hist.rowid,
                   hist.dentry_seq,
                   IF found # None
                   THEN [NoCreate EXCEPT !.pc = "done", !.path = path, !.ret = found]
                   ELSE IF parent_ino = None
                   THEN [NoCreate EXCEPT !.pc = "done", !.path = path]
                   ELSE [NoCreate EXCEPT !.pc = "insert_inode", !.path = path,
                                         !.parent_ino = parent_ino[1]])

\* create_file: INSERT INTO fs_inode
CreateInsertInodeStep ==
  \E t \in {u \in Threads : hist.tasks[u].pc = "insert_inode"} :
    \E i \in {insert_inode(fs_inode, fs_seq, DEFAULT_FILE_MODE, 0)} :
      /\ i.fs_seq <= MaxIno + 1
      /\ CreateEvent(t, "insert_inode", i.fs_inode, i.fs_seq, fs_dentry, i.ino,
                     hist.dentry_seq,
                     [hist.tasks[t] EXCEPT !.pc = "select", !.own = Some(i.ino)])

\* create_file: SELECT last_insert_rowid()
CreateSelectStep ==
  \E t \in {u \in Threads : hist.tasks[u].pc = "select"} :
    CreateEvent(t, "last_insert_rowid", fs_inode, fs_seq, fs_dentry, hist.rowid,
                hist.dentry_seq,
                [hist.tasks[t] EXCEPT !.pc = "insert_dentry", !.ino = Some(hist.rowid)])

\* create_file: INSERT INTO fs_dentry (name, parent_ino, ino); the row is
\* refused when (parent_ino, name) exists or ino is not a row of fs_inode
CreateInsertDentryStep ==
  \E t \in {u \in Threads : hist.tasks[u].pc = "insert_dentry"} :
    LET task == hist.tasks[t]
        name == file_name(task.path)[1]
        ok == /\ dentry_unique(fs_dentry, task.parent_ino, name)
              /\ task.ino[1] \in DOMAIN fs_inode
    IN IF ok
       THEN CreateEvent(t, "insert_dentry", fs_inode, fs_seq,
                        fs_dentry \cup {[name |-> name, parent_ino |-> task.parent_ino,
                                         ino |-> task.ino[1]]},
                        hist.dentry_seq + 1, hist.dentry_seq + 1,
                        [task EXCEPT !.pc = "done", !.ret = task.ino])
       ELSE CreateEvent(t, "insert_dentry", fs_inode, fs_seq, fs_dentry, hist.rowid,
                        hist.dentry_seq, [task EXCEPT !.pc = "done"])

NextCreate ==
  \/ CreateResolveStep
  \/ CreateInsertInodeStep
  \/ CreateSelectStep
  \/ CreateInsertDentryStep

SpecCreate == InitCreate /\ [][NextCreate]_vars

(***************************************************************************)
(* Two guest threads write through one SqliteFile (vfds that share it      *)
(* after dup, dup2 or fork).  SqliteFile::write is split at its awaits:    *)
(* the offset is read under its mutex, every DELETE and INSERT of the      *)
(* chunk loop and the UPDATE of the size are awaited statements, and the   *)
(* offset is advanced under its mutex after the last of them.              *)
(***************************************************************************)
\* the buffer a thread writes: its own byte, up to MaxLen times
ShareBufs(t) == {[i \in 1..k |-> t] : k \in 1..MaxLen}

InitShare ==
  /\ tables = <<>>
  /\ FD_TABLES = <<>>
  /\ kin = {}
  /\ last = [op |-> "open_file", pid |-> 0, args |-> <<>>, ret |-> None]
  /\ mounts = MountTableNew
  /\ kfds = KernelStdio
  /\ objs = (FileObj :> [ino |-> FileIno, offset |-> 0, dir_pos |-> 0])
  /\ fs_data = {}
  /\ fs_inode = (ROOT_INO :> [mode |-> DEFAULT_DIR_MODE, size |-> 0])
                  @@ (FileIno :> [mode |-> DEFAULT_FILE_MODE, size |-> 0])
  /\ fs_dentry = {[name |-> <<"f">>, parent_ino |-> ROOT_INO, ino |-> FileIno]}
  /\ fs_symlink = <<>>
  /\ fs_seq = FileIno
  /\ hist = [initial |-> 0, tasks |-> [t \in Threads |-> Idle]]

\* one step of the write of thread t
ShareEvent(t, task, op) ==
  /\ hist' = [hist EXCEPT !.tasks[t] = task]
  /\ last' = [op |-> op, pid |-> t, args |-> <<>>, ret |-> None]
  /\ UNCHANGED <<tables, FD_TABLES, kin, mounts, kfds, fs_dentry, fs_symlink, fs_seq>>

\* lseek(SEEK_SET) before either write is issued
ShareSeekStep ==
  \E offset \in 0..1 :
    \E k \in {SqliteFile_seek(fs_inode, objs[FileObj], offset, SEEK_SET)} :
      /\ \A t \in Threads : hist.tasks[t] = Idle
      /\ objs' = [objs EXCEPT ![FileObj] = k.file]
      /\ hist' = [hist EXCEPT !.initial = k.file.offset]
      /\ last' = [op |-> "seek", pid |-> 0, args |-> <<offset>>, ret |-> k.ret]
      /\ UNCHANGED <<tables, FD_TABLES, kin, mounts, kfds, fs_data, fs_inode,
                     fs_dentry, fs_symlink, fs_seq>>

\* let offset = *self.offset.lock().unwrap(); written = 0.  The task
\* remembers whether the other write was under way when it was issued.
ShareWriteStep(t) ==
  \E buf \in ShareBufs(t) :
    /\ hist.tasks[t] = Idle
    /\ UNCHANGED <<objs, fs_data, fs_inode>>
    /\ ShareEvent(t, [pc |-> IF 0 < Len(buf) THEN "delete" ELSE "update",
                      offset |-> objs[FileObj].offset, buf |-> buf, written |-> 0,
                      concurrent |-> \E u \in Threads \ {t} :
                                        /\ hist.tasks[u] # Idle
                                        /\ hist.tasks[u].pc # "done"],
                  "write")

\* DELETE FROM fs_data WHERE ino = ? AND offset = ? (awaited)
ShareDeleteStep(t) ==
  /\ hist.tasks[t] # Idle
  /\ hist.tasks[t].pc = "delete"
  /\ LET task == hist.tasks[t]
         chunk_offset == task.offset + task.written
     IN /\ fs_data' = {r \in fs_data : ~(r.ino = objs[FileObj].ino /\ r.offset = chunk_offset)}
        /\ UNCHANGED <<objs, fs_inode>>
        /\ ShareEvent(t, [task EXCEPT !.pc = "insert"], "delete")

\* INSERT INTO fs_data (ino, offset, size, data) (awaited); written +=
\* chunk_size, and the loop goes on while written < buf.len()
ShareInsertStep(t) ==
  /\ hist.tasks[t] # Idle
  /\ hist.tasks[t].pc = "insert"
  /\ LET task == hist.tasks[t]
         chunk_offset == task.offset + task.written
         chunk_size == Min(CHUNK_SIZE, Len(task.buf) - task.written)
         chunk_data == SubSeq(task.buf, task.written + 1, task.written + chunk_size)
         written == task.written + chunk_size
     IN /\ fs_data' = fs_data \cup {[ino |-> objs[FileObj].ino, offset |-> chunk_offset,
                                     size |-> chunk_size, data |-> chunk_data]}
        /\ UNCHANGED <<objs, fs_inode>>
        /\ ShareEvent(t, [task EXCEPT !.written = written,
                                      !.pc = IF written < Len(task.buf)
                                             THEN "delete" ELSE "update"],
                      "insert")

\* UPDATE fs_inode SET size = MAX(size, ?) with new_size = offset + written
\* (awaited)
ShareUpdateStep(t) ==
  /\ hist.tasks[t] # Idle
  /\ hist.tasks[t].pc = "update"
  /\ LET task == hist.tasks[t]
         new_size == task.offset + task.written
     IN /\ fs_inode' = [fs_inode EXCEPT ![objs[FileObj].ino].size = Max(@, new_size)]
        /\ UNCHANGED <<objs, fs_data>>
        /\ ShareEvent(t, [task EXCEPT !.pc = "offset"], "update")

\* *self.offset.lock().unwrap() += written; Ok(written)
ShareReturnStep(t) ==
  /\ hist.tasks[t] # Idle
  /\ hist.tasks[t].pc = "offset"
  /\ LET task == hist.tasks[t]
     IN /\ objs' = [objs EXCEPT ![FileObj].offset = @ + task.written]
        /\ UNCHANGED <<fs_data, fs_inode>>
        /\ ShareEvent(t, [task EXCEPT !.pc = "done"], "return")

NextShare ==
  \/ ShareSeekStep
  \/ \E t \in Threads :
       \/ ShareWriteStep(t)
       \/ ShareDeleteStep(t)
       \/ ShareInsertStep(t)
       \/ ShareUpdateStep(t)
       \/ ShareReturnStep(t)

SpecShare == InitShare /\ [][NextShare]_vars

(***************************************************************************)
(* A guest that opens files of the virtual mount and forks: parent and     *)
(* child read and write through their vfds, and call seek on the           *)
(* file-objects of their entries.                                          *)
(***************************************************************************)
\* handle_write: buf is the guest's buffer, None for a null pointer
handle_write(st, vfd, buf) ==
  LET e == get(st.inner, vfd)
  IN IF e = None THEN [st |-> st, ret |-> None]
     ELSE IF kernel_fd(e[1]) # None
     THEN [st |-> st, ret |-> Some(kernel_fd_call(st.kfds, kernel_fd(e[1])[1]))]
     ELSE IF buf = None THEN [st |-> st, ret |-> Some(-EFAULT)]
     ELSE LET obj == e[1].file_ops.obj
              w == SqliteFile_write(st.fs_data, st.fs_inode, st.objs[obj], buf[1])
          IN [st |-> [st EXCEPT !.objs[obj] = w.file, !.fs_data = w.fs_data,
                                !.fs_inode = w.fs_inode],
              ret |-> w.ret]

\* the state the handlers of an event of pid p work on
ProcState(p) == [SysState EXCEPT !.inner = GuestInner(p)]

\* the path the processes open
ForkPaths == {VirtMount \o <<"/", "a">>}

\* the vfds the processes name
ForkVfds == {FIRST_USER_FD}

\* the lengths read and written, the buffers written, and the offsets a
\* write starts at
ForkLens == 1..2

ForkBufs == {Some(b) : b \in {x \in LenBufs : Len(x) \in ForkLens}}

ForkOffsets == 0..1

\* TRUE iff vfd of pid p is an entry on a live file-object of the virtual
\* mount
OnFileObject(p, vfd) ==
  /\ p \in DOMAIN FD_TABLES
  /\ vfd \in DOMAIN GuestInner(p).entries
  /\ GuestInner(p).entries[vfd].file_ops.kind = "SqliteFile"
  /\ GuestInner(p).entries[vfd].file_ops.obj \in DOMAIN objs

\* the answer h of a handler to an event of pid p
ForkEvent(p, op, args, h) ==
  /\ tables' = [tables EXCEPT ![FD_TABLES[p]] = h.st.inner]
  /\ objs' = h.st.objs
  /\ fs_data' = h.st.fs_data
  /\ fs_inode' = h.st.fs_inode
  /\ fs_dentry' = h.st.fs_dentry
  /\ fs_seq' = h.st.fs_seq
  /\ last' = [op |-> op, pid |-> p, args |-> args, ret |-> h.ret]
  /\ UNCHANGED <<FD_TABLES, kin, mounts, kfds, fs_symlink, hist>>

\* openat of a process
ForkOpenatStep ==
  \E p \in DOMAIN FD_TABLES, path \in ForkPaths :
    \E h \in {handle_openat(ProcState(p), mounts, path, 0)} :
      /\ h.st.inner.next_vfd <= FIRST_USER_FD + 1
      /\ DOMAIN h.st.objs \subseteq {FileObj}
      /\ ForkEvent(p, "openat", <<path>>, h)

\* read of a process
ForkReadStep ==
  \E p \in DOMAIN FD_TABLES, vfd \in ForkVfds, buf_len \in ForkLens :
    \E h \in {handle_read(ProcState(p), vfd, buf_len)} :
      /\ OnFileObject(p, vfd)
      /\ ForkEvent(p, "read", <<vfd, buf_len>>, h)

\* write of a process
ForkWriteStep ==
  \E p \in DOMAIN FD_TABLES, vfd \in ForkVfds, buf \in ForkBufs :
    \E h \in {handle_write(ProcState(p), vfd, buf)} :
      /\ OnFileObject(p, vfd)
      /\ objs[GuestInner(p).entries[vfd].file_ops.obj].offset \in ForkOffsets
      /\ ForkEvent(p, "write", <<vfd, buf>>, h)

\* FileOps::seek called on the file-object of an entry of a process
ForkSeekStep ==
  \E p \in DOMAIN FD_TABLES, vfd \in ForkVfds, offset \in ForkOffsets :
    /\ OnFileObject(p, vfd)
    /\ \E obj \in {GuestInner(p).entries[vfd].file_ops.obj} :
         \E k \in {SqliteFile_seek(fs_inode, objs[obj], offset, SEEK_SET)} :
           /\ objs' = [objs EXCEPT ![obj] = k.file]
           /\ last' = [op |-> "seek", pid |-> p, args |-> <<vfd, offset>>, ret |-> k.ret]
           /\ UNCHANGED <<tables, FD_TABLES, kin, mounts, kfds, fs_data, fs_inode,
                          fs_dentry, fs_symlink, fs_seq, hist>>

NextFork ==
  \/ ForkStep
  \/ ForkOpenatStep
  \/ ForkReadStep
  \/ ForkWriteStep
  \/ ForkSeekStep

SpecFork == InitSys /\ [][NextFork]_vars

(***************************************************************************)
(* The handlers of the *at syscalls: openat, newfstatat, statx, readlinkat *)
(* and faccessat2 with a dirfd.  Each answers with ret (the value for the  *)
(* guest, None when it has none) and call (the syscall it injects or hands *)
(* back in place of the original, None when there is none).  A path        *)
(* pointer is the guest's own pointer or a scratch region on the guest's   *)
(* stack that holds the translated path.                                   *)
(***************************************************************************)
GuestPtr(path) == [mem |-> "guest", path |-> path]

StackPtr(path) == [mem |-> "stack", path |-> path]

AtCall(dirfd, ptr) == [dirfd |-> dirfd, path |-> ptr]

\* let kernel_dirfd = if dirfd == AT_FDCWD { dirfd }
\*                    else { fd_table.translate(dirfd).unwrap_or(dirfd) }
kernel_dirfd_of(inner, dirfd) ==
  IF dirfd = AT_FDCWD THEN dirfd
  ELSE IF translate(inner, dirfd) # None THEN translate(inner, dirfd)[1] ELSE dirfd

\* syscall::translate_path: the pointer to the translated path on the
\* guest's stack when a mount matches, None when none does
syscall_translate_path(ms, path) ==
  IF resolve(ms, path) # None THEN Some(StackPtr(resolve(ms, path)[1].translated))
  ELSE None

\* the kernel's answer to an *at syscall: the dirfd is used for a relative
\* path only
kernel_at(k, call) ==
  IF (call.path.path # <<>> /\ call.path.path[1] = "/")
     \/ call.dirfd = AT_FDCWD \/ call.dirfd \in DOMAIN k
  THEN 0 ELSE -EBADF

\* handle_openat: the syscall it injects for a path outside the virtual
\* mounts
openat_call(st, ms, dirfd, path) ==
  LET r == resolve(ms, path)
      tp == syscall_translate_path(ms, path)
  IN IF r # None /\ is_virtual(r[1].vfs) THEN None
     ELSE IF r # None
     THEN Some(AtCall(kernel_dirfd_of(st.inner, dirfd),
                      IF tp # None THEN tp[1] ELSE GuestPtr(path)))
     ELSE Some(AtCall(kernel_dirfd_of(st.inner, dirfd), GuestPtr(path)))

\* SqliteVfs::stat as newfstatat uses it: NotFound when the path does not
\* resolve
vfs_stat_errno(vfs, st, path) ==
  IF resolve_path(vfs, st.fs_dentry, path) = None THEN vfs_errno("NotFound") ELSE 0

\* handle_newfstatat
handle_newfstatat(st, ms, dirfd, path) ==
  LET r == resolve(ms, path)
      tp == syscall_translate_path(ms, path)
  IN IF r # None /\ is_virtual(r[1].vfs)
     THEN [ret |-> Some(vfs_stat_errno(r[1].vfs, st, path)), call |-> None]
     ELSE IF tp # None
     THEN LET c == AtCall(kernel_dirfd_of(st.inner, dirfd), tp[1])
          IN [ret |-> Some(kernel_at(st.kfds, c)), call |-> Some(c)]
     ELSE [ret |-> None, call |-> None]

\* handle_statx
handle_statx(st, ms, dirfd, path) ==
  LET r == resolve(ms, path)
      tp == syscall_translate_path(ms, path)
  IN IF r # None /\ is_virtual(r[1].vfs)
     THEN [ret |-> Some(-ENOSYS), call |-> None]
     ELSE IF tp # None
     THEN LET c == AtCall(kernel_dirfd_of(st.inner, dirfd), tp[1])
          IN [ret |-> Some(kernel_at(st.kfds, c)), call |-> Some(c)]
     ELSE [ret |-> None, call |-> None]

\* handle_readlinkat: Some(Syscall) is the syscall run in place of the
\* original
handle_readlinkat(st, ms, dirfd, path) ==
  LET tp == syscall_translate_path(ms, path)
  IN IF tp # None
     THEN [ret |-> None, call |-> Some(AtCall(kernel_dirfd_of(st.inner, dirfd), tp[1]))]
     ELSE [ret |-> None, call |-> None]

\* handle_faccessat2
handle_faccessat2(st, ms, dirfd, path) ==
  LET dirfd_needs_translation == dirfd # AT_FDCWD /\ translate(st.inner, dirfd) # None
      translated_path_opt == syscall_translate_path(ms, path)
      c == AtCall(kernel_dirfd_of(st.inner, dirfd),
                  IF translated_path_opt # None THEN translated_path_opt[1]
                  ELSE GuestPtr(path))
  IN IF ~dirfd_needs_translation /\ translated_path_opt = None
     THEN [ret |-> None, call |-> None]
     ELSE [ret |-> Some(kernel_at(st.kfds, c)), call |-> Some(c)]

\* the syscall that runs in the kernel: the handler's, or the original one
\* when the handler has neither a value nor a syscall
reaches_kernel(h, dirfd, path) ==
  IF h.call # None THEN h.call
  ELSE IF h.ret = None THEN Some(AtCall(dirfd, GuestPtr(path)))
  ELSE None

(***************************************************************************)
(* The same guest making *at calls with a dirfd: a relative path outside   *)
(* every mount, a path of the bind mount and a path of the virtual mount.  *)
(***************************************************************************)
AtPaths == {<<"y">>, BindMount \o <<"/", "x">>, VirtMount \o <<"/", "a">>}

AtDirfds == {AT_FDCWD} \cup FcntlUserVfds

StatSyscalls == {"newfstatat", "statx", "readlinkat", "faccessat2"}

\* an *at call that opens nothing: the table and the kernel's FDs stay
AtStatStep ==
  \E op \in StatSyscalls, dirfd \in AtDirfds, path \in AtPaths :
    \E h \in {CASE op = "newfstatat" -> handle_newfstatat(SysState, mounts, dirfd, path)
                [] op = "statx" -> handle_statx(SysState, mounts, dirfd, path)
                [] op = "readlinkat" -> handle_readlinkat(SysState, mounts, dirfd, path)
                [] OTHER -> handle_faccessat2(SysState, mounts, dirfd, path)} :
      /\ last' = [op |-> op, pid |-> SysPid, args |-> <<dirfd, path>>, ret |-> h.ret,
                  call |-> reaches_kernel(h, dirfd, path)]
      /\ UNCHANGED <<tables, FD_TABLES, kin, mounts, kfds, objs, fs_data, fs_inode,
                     fs_dentry, fs_symlink, fs_seq, hist>>

\* an openat with a dirfd
AtOpenatStep ==
  \E dirfd \in AtDirfds, path \in AtPaths :
    \E h \in {handle_openat(SysState, mounts, path, 0)} :
      /\ h.st.inner.next_vfd <= FIRST_USER_FD + 2
      /\ tables' = [tables EXCEPT ![FD_TABLES[SysPid]] = h.st.inner]
      /\ kfds' = h.st.kfds
      /\ objs' = LiveObjs(h.st.inner, h.st.objs)
      /\ last' = [op |-> "openat", pid |-> SysPid, args |-> <<dirfd, path>>,
                  ret |-> h.ret, call |-> openat_call(SysState, mounts, dirfd, path)]
      /\ UNCHANGED <<FD_TABLES, kin, mounts, fs_data, fs_inode, fs_dentry,
                     fs_symlink, fs_seq, hist>>

AtCloseStep == Close(FcntlUserVfds, FIRST_USER_FD + 1)

NextAt == AtStatStep \/ AtOpenatStep \/ AtCloseStep

SpecAt == InitSys /\ [][NextAt]_vars

(***************************************************************************)
(* pselect6: an fd_set is the set of the FDs whose bit is set; the three   *)
(* sets of a call are a sequence <<readfds, writefds, exceptfds>> of       *)
(* Options, None for a null pointer.                                       *)
(***************************************************************************)
\* the largest element of a set of kernel FDs, 0 for the empty set
max_kernel_fd_of(kset) ==
  IF kset = {} THEN 0 ELSE CHOOSE m \in kset \cup {0} : \A k \in kset \cup {0} : k <= m

\* fdset::translate_to_kernel
translate_to_kernel(virt_set, virt_nfds, inner) ==
  LET kernel_set == {translate(inner, vfd)[1] :
                       vfd \in {v \in 0..(virt_nfds - 1) :
                                  v \in virt_set /\ translate(inner, v) # None}}
  IN [set |-> kernel_set, nfds |-> max_kernel_fd_of(kernel_set) + 1]

\* fdset::translate_to_virtual
translate_to_virtual(kernel_set, kernel_nfds, virt_nfds, inner) ==
  {vfd \in 0..(virt_nfds - 1) :
     /\ translate(inner, vfd) # None
     /\ translate(inner, vfd)[1] < kernel_nfds
     /\ translate(inner, vfd)[1] \in kernel_set}

\* pselect6(2) with the kernel FDs of ready being ready: EBADF for an FD
\* that is not open, otherwise the number of bits left in the sets
RECURSIVE count_bits(_)
count_bits(sets) ==
  IF sets = <<>> THEN 0
  ELSE (IF Head(sets) = None THEN 0 ELSE Cardinality(Head(sets)[1]))
       + count_bits(Tail(sets))

kernel_pselect6(k, nfds, sets, ready) ==
  LET asked == UNION {sets[i][1] \cap 0..(nfds - 1) : i \in {j \in 1..3 : sets[j] # None}}
      left == [i \in 1..3 |-> IF sets[i] = None THEN None
                              ELSE Some(sets[i][1] \cap 0..(nfds - 1) \cap ready)]
  IN IF asked \subseteq DOMAIN k THEN [ret |-> count_bits(left), sets |-> left]
     ELSE [ret |-> -EBADF, sets |-> sets]

\* handle_pselect6: call is the injected syscall, out the guest's three
\* sets when the handler returns
handle_pselect6(st, virt_nfds, virt_sets, ready) ==
  LET kernel_sets == [i \in 1..3 |->
                        IF virt_sets[i] = None THEN None
                        ELSE Some(translate_to_kernel(virt_sets[i][1], virt_nfds, st.inner))]
      max_of(i) == IF kernel_sets[i] = None THEN 0 ELSE kernel_sets[i][1].nfds
      kernel_nfds == Max(Max(max_of(1), max_of(2)), max_of(3))
      injected == [i \in 1..3 |-> IF kernel_sets[i] = None THEN None
                                  ELSE Some(kernel_sets[i][1].set)]
      kr == kernel_pselect6(st.kfds, kernel_nfds, injected, ready)
  IN IF kernel_nfds = 0
     THEN [ret |-> None, call |-> None, out |-> virt_sets]
     ELSE IF kr.ret <= 0
     THEN [ret |-> Some(kr.ret), call |-> Some([nfds |-> kernel_nfds, sets |-> injected]),
           out |-> virt_sets]
     ELSE [ret |-> Some(kr.ret), call |-> Some([nfds |-> kernel_nfds, sets |-> injected]),
           out |-> [i \in 1..3 |->
                      IF virt_sets[i] = None THEN None
                      ELSE Some(translate_to_virtual(kr.sets[i][1], kernel_nfds,
                                                     virt_nfds, st.inner))]]

(***************************************************************************)
(* The same guest waiting with pselect6 on the vfds it opened and          *)
(* duplicated.                                                             *)
(***************************************************************************)
\* the sets the guest passes: each a null pointer or a set of user vfds
SelectSets ==
  {<<r, w, e>> : r \in {None, Some({FIRST_USER_FD}), Some(FcntlUserVfds)},
                 w \in {None, Some({FIRST_USER_FD + 1})},
                 e \in {None, Some({})}}

\* the kernel FDs that are ready when the guest waits
ReadyInputs == SUBSET (FIRST_USER_FD..(FIRST_USER_FD + 1))

SelectStep ==
  \E virt_nfds \in {FIRST_USER_FD + 2}, virt_sets \in SelectSets,
     ready \in ReadyInputs :
    \E h \in {handle_pselect6(SysState, virt_nfds, virt_sets, ready)} :
      /\ last' = [op |-> "pselect6", pid |-> SysPid, args |-> <<virt_nfds, virt_sets>>,
                  ret |-> h.ret, call |-> h.call, ready |-> ready, out |-> h.out]
      /\ UNCHANGED <<tables, FD_TABLES, kin, mounts, kfds, objs, fs_data, fs_inode,
                     fs_dentry, fs_symlink, fs_seq, hist>>

SelectOpenatStep ==
  Openat({VirtMount \o <<"/", "a">>, BindMount \o <<"/", "x">>}, FIRST_USER_FD + 1)

SelectDupStep == Dup(FcntlUserVfds, FIRST_USER_FD + 1)

SelectCloseStep == Close(FcntlUserVfds, FIRST_USER_FD + 1)

NextSelect == SelectStep \/ SelectOpenatStep \/ SelectDupStep \/ SelectCloseStep

SpecSelect == InitSys /\ [][NextSelect]_vars

(***************************************************************************)
(* The same guest duplicating its user vfds onto one another with dup2 and *)
(* dup3.                                                                   *)
(***************************************************************************)
\* dup3(2): as dup2(2), but EINVAL for oldfd = newfd
kernel_dup3(k, oldfd, newfd) ==
  IF oldfd = newfd THEN [kfds |-> k, ret |-> -EINVAL] ELSE kernel_dup2(k, oldfd, newfd)

DupToVfds == FcntlUserVfds

DupToOpenatStep ==
  Openat({VirtMount \o <<"/", "a">>, BindMount \o <<"/", "x">>}, FIRST_USER_FD + 1)

DupToDup2Step == Dup2(DupToVfds, FIRST_USER_FD + 1)

DupToDup3Step ==
  \E old_vfd \in DupToVfds, new_vfd \in DupToVfds, flags \in FlagInputs :
    \E h \in {handle_dup3(SysState, old_vfd, new_vfd, flags)} :
      \E kd \in {kernel_dup3(kfds, old_vfd, new_vfd)} :
        SysEvent(FIRST_USER_FD + 1, "dup3", <<old_vfd, new_vfd, flags>>, h,
                 [kfds |-> kd.kfds, ret |-> kd.ret, source |-> None])

DupToCloseStep == Close(DupToVfds, FIRST_USER_FD + 1)

NextDupTo == DupToOpenatStep \/ DupToDup2Step \/ DupToDup3Step \/ DupToCloseStep

SpecDupTo == InitSys /\ [][NextDupTo]_vars

(***************************************************************************)
(* The same guest opening a virtual and a passthrough file and closing     *)
(* any of its vfds, stderr included.                                       *)
(***************************************************************************)
CloseOpenatStep ==
  Openat({VirtMount \o <<"/", "a">>, BindMount \o <<"/", "x">>}, FIRST_USER_FD + 1)

CloseAnyStep == Close({STDERR_FILENO} \cup FcntlUserVfds, FIRST_USER_FD + 1)

NextClose == CloseOpenatStep \/ CloseAnyStep

SpecClose == InitSys /\ [][NextClose]_vars

(***************************************************************************)
(* The Filesystem of the SDK over the tables fs_inode, fs_dentry, fs_data  *)
(* and fs_symlink.  fs is the content of the four tables and the           *)
(* AUTOINCREMENT sequence of fs_inode; a Result is a record whose err is   *)
(* "" for Ok and the message for Err.                                      *)
(***************************************************************************)
Ok(v) == [err |-> "", val |-> v]

Err(msg) == [err |-> msg, val |-> None]

\* mode & S_IFMT
file_type(mode) == ((mode \div 4096) % 16) * 4096

\* str::trim_end_matches('/')
RECURSIVE trim_end_matches(_)
trim_end_matches(s) ==
  IF s # <<>> /\ s[Len(s)] = "/" THEN trim_end_matches(SubSeq(s, 1, Len(s) - 1)) ELSE s

\* the for loop of normalize_path: "." is skipped, ".." pops
RECURSIVE fold_components(_, _)
fold_components(comps, result) ==
  IF comps = <<>> THEN result
  ELSE IF Head(comps) = <<".">> THEN fold_components(Tail(comps), result)
  ELSE IF Head(comps) = <<".", ".">>
  THEN fold_components(Tail(comps),
                       IF result = <<>> THEN <<>> ELSE SubSeq(result, 1, Len(result) - 1))
  ELSE fold_components(Tail(comps), Append(result, Head(comps)))

\* format!("/{}", parts.join("/"))
RECURSIVE join_components(_)
join_components(parts) ==
  IF parts = <<>> THEN <<>>
  ELSE IF Len(parts) = 1 THEN <<"/">> \o Head(parts)
  ELSE <<"/">> \o Head(parts) \o join_components(Tail(parts))

\* split('/').filter(|s| !s.is_empty())
split_nonempty(s) == SelectSeq(split(s), LAMBDA x : x # <<>>)

\* Filesystem::normalize_path
normalize_path(path) ==
  LET trimmed == trim_end_matches(path)
      normalized == IF trimmed = <<>> THEN <<"/">> ELSE trimmed
      result == fold_components(split_nonempty(normalized), <<>>)
  IN IF Head(normalized) # "/" THEN <<"/">> \o normalized
     ELSE IF result = <<>> THEN <<"/">>
     ELSE join_components(result)

\* Filesystem::split_path
split_path(path) ==
  LET normalized == normalize_path(path)
  IN IF normalized = <<"/">> THEN <<>> ELSE split_nonempty(normalized)

\* Filesystem::resolve_path
Filesystem_resolve_path(fs, path) ==
  LET comps == split_path(path)
  IN IF comps = <<>> THEN Some(ROOT_INO) ELSE walk(fs.dentry, ROOT_INO, comps)

\* Filesystem::get_link_count
get_link_count(fs, ino) == Cardinality({d \in fs.dentry : d.ino = ino})

\* Filesystem::build_stats_from_row, without the owner and the times
build_stats_from_row(fs, ino) ==
  [ino |-> ino, mode |-> fs.inode[ino].mode, nlink |-> get_link_count(fs, ino),
   size |-> fs.inode[ino].size]

\* Filesystem::lstat
Filesystem_lstat(fs, path) ==
  LET ino == Filesystem_resolve_path(fs, normalize_path(path))
  IN IF ino = None THEN Ok(None)
     ELSE IF ino[1] \notin DOMAIN fs.inode THEN Ok(None)
     ELSE Ok(Some(build_stats_from_row(fs, ino[1])))

\* Filesystem::readlink
Filesystem_readlink(fs, path) ==
  LET ino == Filesystem_resolve_path(fs, normalize_path(path))
  IN IF ino = None THEN Ok(None)
     ELSE IF ino[1] \notin DOMAIN fs.inode THEN Ok(None)
     ELSE IF file_type(fs.inode[ino[1]].mode) # S_IFLNK THEN Err("Not a symbolic link")
     ELSE IF ino[1] \in DOMAIN fs.symlink THEN Ok(Some(fs.symlink[ino[1]]))
     ELSE Ok(None)

\* the path stat goes on with after it read target from the link at
\* current_path
follow(current_path, target) ==
  LET par == parent(current_path)
      joined == join(IF par = None THEN <<"/">> ELSE par[1], target)
  IN normalize_path(IF starts_with(target, <<"/">>) THEN target ELSE joined)

\* a stat that answers with the stats of the link it stopped at
stat_exhausted_returns_link(fs, current_path) ==
  [err |-> "", val |-> Filesystem_lstat(fs, current_path).val]

\* Filesystem::stat once the for loop ran out
stat_exhausted(fs, current_path) == Err("Too many levels of symbolic links")

\* one iteration of the for loop of Filesystem::stat on st: the path to
\* resolve, the value returned so far (None while the loop goes on) and the
\* number of links followed
stat_step(fs, st) ==
  IF st.res # None THEN st
  ELSE LET ino == Filesystem_resolve_path(fs, st.current_path)
           target == Filesystem_readlink(fs, st.current_path)
       IN IF ino = None THEN [st EXCEPT !.res = Some(Ok(None))]
          ELSE IF ino[1] \notin DOMAIN fs.inode THEN [st EXCEPT !.res = Some(Ok(None))]
          ELSE IF file_type(fs.inode[ino[1]].mode) # S_IFLNK
          THEN [st EXCEPT !.res = Some(Ok(Some(build_stats_from_row(fs, ino[1]))))]
          ELSE IF target.err # "" THEN [st EXCEPT !.res = Some(Err(target.err))]
          ELSE IF target.val = None
          THEN [st EXCEPT !.res = Some(Err("Symlink has no target"))]
          ELSE [current_path |-> follow(st.current_path, target.val[1]),
                res |-> None,
                follows |-> st.follows + 1]

\* i iterations of the for loop from st; the iterations after a return
\* leave st as it is, so the second half runs only while the loop goes on
RECURSIVE stat_iterate(_, _, _)
stat_iterate(fs, st, i) ==
  IF i = 0 THEN st
  ELSE IF i = 1 THEN stat_step(fs, st)
  ELSE LET mid == stat_iterate(fs, st, i \div 2)
       IN IF mid.res # None THEN mid ELSE stat_iterate(fs, mid, i - (i \div 2))

\* the for loop of Filesystem::stat after i iterations
stat_loop(fs, path, i) ==
  stat_iterate(fs, [current_path |-> path, res |-> None, follows |-> 0], i)

\* Filesystem::stat; follows is the number of links it followed
Filesystem_stat(fs, path) ==
  LET st == stat_loop(fs, normalize_path(path), max_symlink_depth)
  IN [res |-> IF st.res # None THEN st.res[1] ELSE stat_exhausted(fs, st.current_path),
      follows |-> st.follows]

\* the path of the parent directory the writing methods build from the
\* components of the path
parent_path(comps) ==
  IF Len(comps) = 1 THEN <<"/">> ELSE join_components(SubSeq(comps, 1, Len(comps) - 1))

\* INSERT INTO fs_dentry (name, parent_ino, ino): refused by
\* UNIQUE(parent_ino, name)
insert_dentry(dentry, name, parent_ino, ino) ==
  IF dentry_unique(dentry, parent_ino, name)
  THEN dentry \cup {[name |-> name, parent_ino |-> parent_ino, ino |-> ino]}
  ELSE dentry

\* the rest of a creating method from INSERT INTO fs_inode on: the inode,
\* its symlink row (sym is Some(target) or None), its dentry
create_node(fs, mode, size, sym, name, parent_ino) ==
  LET i == insert_inode(fs.inode, fs.seq, mode, size)
      with_inode == [fs EXCEPT !.inode = i.fs_inode, !.seq = i.fs_seq,
                               !.symlink = IF sym = None THEN @
                                           ELSE MapInsert(@, i.ino, sym[1])]
  IN IF dentry_unique(fs.dentry, parent_ino, name)
     THEN [fs |-> [with_inode EXCEPT
                     !.dentry = insert_dentry(@, name, parent_ino, i.ino)],
           err |-> "", ino |-> i.ino]
     ELSE [fs |-> with_inode, err |-> "UNIQUE constraint failed", ino |-> i.ino]

\* a mkdir that does not look whether the path exists, on a table without
\* the UNIQUE constraint
Filesystem_mkdir_unchecked(fs, path) ==
  LET comps == split_path(normalize_path(path))
      parent_ino == Filesystem_resolve_path(fs, parent_path(comps))
      c == create_node(fs, DEFAULT_DIR_MODE, 0, None, comps[Len(comps)], parent_ino[1])
  IN IF comps = <<>> THEN [fs |-> fs, err |-> "Cannot create root directory"]
     ELSE IF parent_ino = None THEN [fs |-> fs, err |-> "Parent directory does not exist"]
     ELSE [fs |-> [c.fs EXCEPT !.dentry = @ \cup
                     {[name |-> comps[Len(comps)], parent_ino |-> parent_ino[1],
                       ino |-> c.ino]}],
           err |-> ""]

\* Filesystem::mkdir
Filesystem_mkdir(fs, path) ==
  LET comps == split_path(normalize_path(path))
      parent_ino == Filesystem_resolve_path(fs, parent_path(comps))
      c == create_node(fs, DEFAULT_DIR_MODE, 0, None, comps[Len(comps)], parent_ino[1])
  IN IF comps = <<>> THEN [fs |-> fs, err |-> "Cannot create root directory"]
     ELSE IF parent_ino = None THEN [fs |-> fs, err |-> "Parent directory does not exist"]
     ELSE IF Filesystem_resolve_path(fs, normalize_path(path)) # None
     THEN [fs |-> fs, err |-> "Directory already exists"]
     ELSE [fs |-> c.fs, err |-> c.err]

\* Filesystem::write_file
Filesystem_write_file(fs, path, data) ==
  LET comps == split_path(normalize_path(path))
      parent_ino == Filesystem_resolve_path(fs, parent_path(comps))
      found == Filesystem_resolve_path(fs, normalize_path(path))
      c == create_node(fs, DEFAULT_FILE_MODE, Len(data), None, comps[Len(comps)],
                       parent_ino[1])
      ino == IF found # None THEN found[1] ELSE c.ino
      base == IF found # None
              THEN [fs EXCEPT !.data = {r \in @ : r.ino # ino}]
              ELSE c.fs
      row == [ino |-> ino, offset |-> 0, size |-> Len(data), data |-> data]
      written == IF data # <<>> THEN [base EXCEPT !.data = @ \cup {row}] ELSE base
  IN IF comps = <<>> THEN [fs |-> fs, err |-> "Cannot write to root directory"]
     ELSE IF parent_ino = None THEN [fs |-> fs, err |-> "Parent directory does not exist"]
     ELSE IF found = None /\ c.err # "" THEN [fs |-> c.fs, err |-> c.err]
     ELSE [fs |-> [written EXCEPT
                     !.inode = IF ino \in DOMAIN @
                               THEN [@ EXCEPT ![ino].size = Len(data)] ELSE @],
           err |-> ""]

\* Filesystem::symlink
Filesystem_symlink(fs, target, linkpath) ==
  LET comps == split_path(normalize_path(linkpath))
      parent_ino == Filesystem_resolve_path(fs, parent_path(comps))
      c == create_node(fs, SYMLINK_MODE, Len(target), Some(target), comps[Len(comps)],
                       parent_ino[1])
  IN IF comps = <<>> THEN [fs |-> fs, err |-> "Cannot create symlink at root"]
     ELSE IF parent_ino = None THEN [fs |-> fs, err |-> "Parent directory does not exist"]
     ELSE IF Filesystem_resolve_path(fs, normalize_path(linkpath)) # None
     THEN [fs |-> fs, err |-> "Path already exists"]
     ELSE [fs |-> c.fs, err |-> c.err]

\* a DELETE FROM fs_dentry that deletes no row
delete_dentry_nothing(fs, parent_ino, name) == fs

\* DELETE FROM fs_dentry WHERE parent_ino = ? AND name = ?
delete_dentry(fs, parent_ino, name) ==
  [fs EXCEPT !.dentry = {d \in @ : ~(d.parent_ino = parent_ino /\ d.name = name)}]

\* a cascade that deletes no row
delete_inode_skipped(fs, ino) == fs

\* the cascade of Filesystem::remove for an inode without links
delete_inode(fs, ino) ==
  [fs EXCEPT !.data = {r \in @ : r.ino # ino},
             !.symlink = IF ino \in DOMAIN @ THEN MapRemove(@, ino) ELSE @,
             !.inode = IF ino \in DOMAIN @ THEN MapRemove(@, ino) ELSE @]

\* a remove that does not look whether the directory is empty
Filesystem_remove_nonempty(fs, path) ==
  LET comps == split_path(normalize_path(path))
      ino == Filesystem_resolve_path(fs, normalize_path(path))
      parent_ino == Filesystem_resolve_path(fs, parent_path(comps))
      unlinked == delete_dentry(fs, parent_ino[1], comps[Len(comps)])
  IN IF comps = <<>> \/ ino = None \/ parent_ino = None
     THEN [fs |-> fs, err |-> "Path does not exist"]
     ELSE [fs |-> IF get_link_count(unlinked, ino[1]) = 0
                  THEN delete_inode(unlinked, ino[1]) ELSE unlinked,
           err |-> ""]

\* Filesystem::remove
Filesystem_remove(fs, path) ==
  LET comps == split_path(normalize_path(path))
      ino == Filesystem_resolve_path(fs, normalize_path(path))
      parent_ino == Filesystem_resolve_path(fs, parent_path(comps))
      unlinked == delete_dentry(fs, parent_ino[1], comps[Len(comps)])
  IN IF comps = <<>> THEN [fs |-> fs, err |-> "Cannot remove root directory"]
     ELSE IF ino = None THEN [fs |-> fs, err |-> "Path does not exist"]
     ELSE IF ino[1] = ROOT_INO THEN [fs |-> fs, err |-> "Cannot remove root directory"]
     ELSE IF {d \in fs.dentry : d.parent_ino = ino[1]} # {}
     THEN [fs |-> fs, err |-> "Directory not empty"]
     ELSE IF parent_ino = None THEN [fs |-> fs, err |-> "Parent directory does not exist"]
     ELSE [fs |-> IF get_link_count(unlinked, ino[1]) = 0
                  THEN delete_inode(unlinked, ino[1]) ELSE unlinked,
           err |-> ""]

\* an ensure_root that inserts a directory row whether or not the root exists
ensure_root_always(fs) ==
  IF ROOT_INO \in DOMAIN fs.inode
  THEN LET i == insert_inode(fs.inode, fs.seq, DEFAULT_DIR_MODE, 0)
       IN [fs EXCEPT !.inode = i.fs_inode, !.seq = i.fs_seq]
  ELSE [fs EXCEPT !.inode = MapInsert(@, ROOT_INO, [mode |-> DEFAULT_DIR_MODE, size |-> 0]),
                  !.seq = Max(@, ROOT_INO)]

\* Filesystem::ensure_root, and the same step of SqliteVfs::initialize_schema
ensure_root(fs) ==
  IF ROOT_INO \in DOMAIN fs.inode THEN fs
  ELSE [fs EXCEPT !.inode = MapInsert(@, ROOT_INO, [mode |-> DEFAULT_DIR_MODE, size |-> 0]),
                  !.seq = Max(@, ROOT_INO)]

\* Filesystem::initialize: CREATE TABLE IF NOT EXISTS keeps the rows of the
\* tables, then ensure_root
Filesystem_initialize(fs) == ensure_root(fs)

(***************************************************************************)
(* One store used through the Filesystem of the SDK, one call at a time.   *)
(***************************************************************************)
\* the content of the store
FsState ==
  [inode |-> fs_inode, dentry |-> fs_dentry, data |-> fs_data, symlink |-> fs_symlink,
   seq |-> fs_seq]

\* the store before the first Filesystem::new
EmptyStore == [inode |-> <<>>, dentry |-> {}, data |-> {}, symlink |-> <<>>, seq |-> 0]

\* the paths handed to the Filesystem: the root, two names below it, one
\* name below the first, and other spellings of the same
FsPaths ==
  { <<"/">>, <<"/", "a">>, <<"/", "b">>, <<"/", "a", "/", "b">>,
    <<"a", "/">>, <<"/", "a", "/", ".", ".">> }

\* the target of the symlinks: the root directory
FsTargets == { <<"/">> }

\* the contents handed to write_file
FsContents == { <<1>> }

\* one call on the store: its new content and what the call returned
StoreCall(op, args, fs, ret) ==
  \E f \in {fs} :
    /\ fs_inode' = f.inode
    /\ fs_dentry' = f.dentry
    /\ fs_data' = f.data
    /\ fs_symlink' = f.symlink
    /\ fs_seq' = f.seq
    /\ last' = [op |-> op, pid |-> 0, args |-> args, ret |-> ret]
    /\ UNCHANGED <<tables, FD_TABLES, kin, mounts, kfds, objs, hist>>

\* one call on a store that hands out the inodes up to MaxIno; r is what the
\* method returned: the new content of the store and the error
FsCall(op, args, r) ==
  /\ r.fs.seq <= MaxIno
  /\ StoreCall(op, args, r.fs, [err |-> r.err, val |-> None])

InitSdk ==
  /\ tables = <<>>
  /\ FD_TABLES = <<>>
  /\ kin = {}
  /\ last = [op |-> "new", pid |-> 0, args |-> <<>>, ret |-> Ok(None)]
  /\ mounts = MountTableNew
  /\ kfds = KernelStdio
  /\ objs = <<>>
  /\ fs_data = {}
  /\ fs_inode = Filesystem_initialize(EmptyStore).inode
  /\ fs_dentry = {}
  /\ fs_symlink = <<>>
  /\ fs_seq = Filesystem_initialize(EmptyStore).seq
  /\ hist = <<>>

MkdirStep ==
  \E path \in FsPaths :
    \E r \in {Filesystem_mkdir(FsState, path)} : FsCall("mkdir", <<path>>, r)

WriteFileStep ==
  \E path \in FsPaths, data \in FsContents :
    \E r \in {Filesystem_write_file(FsState, path, data)} :
      FsCall("write_file", <<path, data>>, r)

SymlinkStep ==
  \E target \in FsTargets, linkpath \in FsPaths :
    \E r \in {Filesystem_symlink(FsState, target, linkpath)} :
      FsCall("symlink", <<linkpath, target>>, r)

RemoveStep ==
  \E path \in FsPaths :
    \E r \in {Filesystem_remove(FsState, path)} : FsCall("remove", <<path>>, r)

StatStep ==
  \E path \in FsPaths :
    StoreCall("stat", <<path>>, FsState, Filesystem_stat(FsState, path).res)

LstatStep ==
  \E path \in FsPaths :
    StoreCall("lstat", <<path>>, FsState, Filesystem_lstat(FsState, path))

\* a second Filesystem::new or SqliteVfs::new on the same database
InitializeStep ==
  StoreCall("initialize", <<>>, Filesystem_initialize(FsState), Ok(None))

NextSdk ==
  \/ MkdirStep
  \/ WriteFileStep
  \/ SymlinkStep
  \/ RemoveStep
  \/ StatStep
  \/ LstatStep
  \/ InitializeStep

SpecSdk == InitSdk /\ [][NextSdk]_vars

(***************************************************************************)
(* The same store, also opened with O_CREAT through the SQLite-backed VFS  *)
(* mounted at VirtMount.                                                   *)
(***************************************************************************)
\* the guest paths opened with O_CREAT
OpenPaths ==
  { VirtMount \o <<"/", "a">>, VirtMount \o <<"/", "b">>,
    VirtMount \o <<"/", "a", "/", "b">>, VirtMount \o <<"/", "a", "/", ".">> }

\* Vfs::open with O_CREAT; the file object is dropped at once
OpenCreatStep ==
  \E path \in OpenPaths :
    \E f \in {open_file(SqliteVfs(VirtMount),
                        [objs |-> <<>>, fs_inode |-> fs_inode, fs_seq |-> fs_seq,
                         fs_dentry |-> fs_dentry],
                        path, O_CREAT)} :
      /\ f.st.fs_seq <= MaxIno
      /\ StoreCall("open", <<path, O_CREAT>>,
                   [FsState EXCEPT !.inode = f.st.fs_inode, !.seq = f.st.fs_seq,
                                   !.dentry = f.st.fs_dentry],
                   [err |-> f.err,
                    val |-> IF f.ret = None THEN None ELSE Some(f.st.objs[f.ret[1]].ino)])

NextStore ==
  \/ MkdirStep
  \/ WriteFileStep
  \/ SymlinkStep
  \/ RemoveStep
  \/ StatStep
  \/ LstatStep
  \/ InitializeStep
  \/ OpenCreatStep

SpecStore == InitSdk /\ [][NextStore]_vars

(***************************************************************************)
(* A store that holds a chain of symlinks: "/0" is a file, a directory or  *)
(* a symlink, "/1" links to "/0", "/2" to "/1" and so on.                  *)
(***************************************************************************)
DigitChars == <<"0", "1", "2", "3", "4", "5", "6", "7", "8", "9">>

\* the name of link k: its decimal digits
LinkName(k) ==
  IF k < 10 THEN <<DigitChars[k + 1]>>
  ELSE <<DigitChars[(k \div 10) + 1], DigitChars[(k % 10) + 1]>>

\* the path of link k
LinkPath(k) == <<"/">> \o LinkName(k)

\* the path of the second link of a cycle of two
CyclePath == <<"/", "x">>

\* the targets a symlink at "/0" is made with: itself by its absolute and by
\* its relative name, and the second link of a cycle of two
BaseTargets == {LinkPath(0), LinkName(0), CyclePath}

\* the number of links of the chain above "/0"
ChainLen(fs) ==
  Cardinality({d \in fs.dentry : d.name # LinkName(0) /\ d.name # <<"x">>})

\* the end of the chain is made: a file, a directory or a symlink
LinkBaseStep ==
  /\ Filesystem_resolve_path(FsState, LinkPath(0)) = None
  /\ \/ \E r \in {Filesystem_write_file(FsState, LinkPath(0), <<1>>)} :
          StoreCall("write_file", <<LinkPath(0), <<1>> >>, r.fs,
                    [err |-> r.err, val |-> None])
     \/ \E r \in {Filesystem_mkdir(FsState, LinkPath(0))} :
          StoreCall("mkdir", <<LinkPath(0)>>, r.fs, [err |-> r.err, val |-> None])
     \/ \E target \in BaseTargets :
          \E r \in {Filesystem_symlink(FsState, target, LinkPath(0))} :
            StoreCall("symlink", <<LinkPath(0), target>>, r.fs,
                      [err |-> r.err, val |-> None])

\* the link "/x" is made with the relative target "0", before the chain
LinkCycleStep ==
  /\ Filesystem_resolve_path(FsState, LinkPath(0)) # None
  /\ Filesystem_resolve_path(FsState, CyclePath) = None
  /\ ChainLen(FsState) = 0
  /\ \E r \in {Filesystem_symlink(FsState, LinkName(0), CyclePath)} :
       StoreCall("symlink", <<CyclePath, LinkName(0)>>, r.fs,
                 [err |-> r.err, val |-> None])

\* the next link of the chain above "/0" is made: its target is the link
\* below it, by its absolute name for an odd link and by its relative name
\* for an even one
LinkChainStep ==
  LET k == ChainLen(FsState) + 1
      target == IF k % 2 = 1 THEN LinkPath(k - 1) ELSE LinkName(k - 1)
  IN /\ k <= MaxChain
     /\ Filesystem_resolve_path(FsState, LinkPath(0)) # None
     /\ \E r \in {Filesystem_symlink(FsState, target, LinkPath(k))} :
          StoreCall("symlink", <<LinkPath(k), target>>, r.fs,
                    [err |-> r.err, val |-> None])

\* stat of the topmost link of the chain, of "/0" or of "/x"
StatLinkStep ==
  \E path \in {LinkPath(ChainLen(FsState)), LinkPath(0), CyclePath} :
    StoreCall("stat", <<path>>, FsState, Filesystem_stat(FsState, path))

NextLink ==
  \/ LinkBaseStep
  \/ LinkCycleStep
  \/ LinkChainStep
  \/ StatLinkStep

SpecLink == InitSdk /\ [][NextLink]_vars

(***************************************************************************)
(* The FdTable of the sandbox crate: its FdEntry is an enum of a           *)
(* passthrough entry, which holds a kernel FD, and a virtual entry, which  *)
(* holds file operations.                                                  *)
(***************************************************************************)
\* FdEntry::Passthrough { kernel_fd, flags, path: None }
FdEntry_Passthrough(fd, flags) ==
  [kind |-> "Passthrough", kernel_fd |-> fd, file_ops |-> None, flags |-> flags,
   path |-> None]

\* FdEntry::Virtual { file_ops, flags, path: None }
FdEntry_Virtual(file_ops, flags) ==
  [kind |-> "Virtual", kernel_fd |-> None, file_ops |-> Some(file_ops), flags |-> flags,
   path |-> None]

\* FdEntry::kernel_fd of the sandbox crate
FdEntry_kernel_fd(entry) ==
  IF entry.kind = "Passthrough" THEN Some(entry.kernel_fd) ELSE None

\* FdTable::new of the sandbox crate
sandbox_FdTableNew ==
  [entries |-> (STDIN_FILENO :> FdEntry_Passthrough(STDIN_FILENO, 0))
            @@ (STDOUT_FILENO :> FdEntry_Passthrough(STDOUT_FILENO, 0))
            @@ (STDERR_FILENO :> FdEntry_Passthrough(STDERR_FILENO, 0)),
   next_vfd |-> FIRST_USER_FD,
   free_fds |-> <<>>]

\* FdTable::allocate of the sandbox crate
sandbox_allocate(inner, entry) ==
  LET vfd == AllocVfd(inner)
      popped == IF inner.free_fds # <<>> THEN Tail(inner.free_fds) ELSE <<>>
      next == IF inner.free_fds = <<>> /\ inner.next_vfd # I32_MAX
              THEN inner.next_vfd + 1 ELSE inner.next_vfd
  IN [inner |-> [entries |-> MapInsert(inner.entries, vfd, entry),
                 next_vfd |-> next,
                 free_fds |-> popped],
      ret |-> vfd]

\* FdTable::allocate_min of the sandbox crate
sandbox_allocate_min(inner, min_vfd, entry) ==
  LET vfd == FindUnused(inner.entries, min_vfd)
  IN [inner |-> [entries |-> MapInsert(inner.entries, vfd, entry),
                 next_vfd |-> IF vfd >= inner.next_vfd THEN vfd + 1 ELSE inner.next_vfd,
                 free_fds |-> HeapWithout(inner.free_fds, vfd)],
      ret |-> vfd]

\* FdTable::allocate_at of the sandbox crate
sandbox_allocate_at(inner, vfd, entry) ==
  [inner |-> [entries |-> MapInsert(inner.entries, vfd, entry),
              next_vfd |-> IF vfd >= inner.next_vfd THEN vfd + 1 ELSE inner.next_vfd,
              free_fds |-> HeapWithout(inner.free_fds, vfd)],
   ret |-> MapGet(inner.entries, vfd)]

\* a translate that answers for every entry of the table: with the vfd
\* itself for a virtual entry
sandbox_translate_every_entry(inner, vfd) ==
  IF vfd \notin DOMAIN inner.entries THEN None
  ELSE IF inner.entries[vfd].kind = "Passthrough" THEN Some(inner.entries[vfd].kernel_fd)
  ELSE Some(vfd)

\* FdTable::translate of the sandbox crate
sandbox_translate(inner, vfd) ==
  IF vfd \in DOMAIN inner.entries THEN FdEntry_kernel_fd(inner.entries[vfd]) ELSE None

\* FdTable::deallocate of the sandbox crate
sandbox_deallocate(inner, vfd) ==
  IF vfd \notin DOMAIN inner.entries THEN [inner |-> inner, ret |-> None]
  ELSE [inner |-> [entries |-> MapRemove(inner.entries, vfd),
                   next_vfd |-> inner.next_vfd,
                   free_fds |-> IF vfd >= FIRST_USER_FD
                                THEN HeapPush(inner.free_fds, vfd)
                                ELSE inner.free_fds],
        ret |-> Some(inner.entries[vfd])]

\* FdTable::duplicate of the sandbox crate
sandbox_duplicate(inner, old_vfd) ==
  IF MapGet(inner.entries, old_vfd) = None THEN [inner |-> inner, ret |-> None]
  ELSE LET r == sandbox_allocate(inner, inner.entries[old_vfd])
       IN [inner |-> r.inner, ret |-> Some(r.ret)]

\* FdTable::duplicate_at of the sandbox crate
sandbox_duplicate_at(inner, old_vfd, new_vfd) ==
  IF MapGet(inner.entries, old_vfd) = None THEN [inner |-> inner, ret |-> None]
  ELSE sandbox_allocate_at(inner, new_vfd, inner.entries[old_vfd])

(***************************************************************************)
(* One fresh FdTable of the sandbox crate, used through every method.      *)
(* hist is TRUE once a method that writes the table has been called.       *)
(***************************************************************************)
\* the vfds named by the calls: stderr and the user range
SbxVfds == STDERR_FILENO..SbxMaxVfd

\* the entries handed to the table: a passthrough entry of a kernel FD that
\* is no vfd of the model, and a virtual entry
SbxEntries == {FdEntry_Passthrough(I32_MAX - 1, 0), FdEntry_Virtual(1, 0)}

InitSbx ==
  /\ tables = (1 :> sandbox_FdTableNew)
  /\ FD_TABLES = (1 :> 1)
  /\ kin = {<<1, 1>>}
  /\ last = [op |-> "new", pid |-> 1, args |-> <<>>, ret |-> None]
  /\ mounts = MountTableNew
  /\ kfds = KernelStdio
  /\ objs = <<>>
  /\ fs_data = {}
  /\ fs_inode = <<>>
  /\ fs_dentry = {}
  /\ fs_symlink = <<>>
  /\ fs_seq = 0
  /\ hist = FALSE

\* one call of a method on the table
SbxCall(op, args, inner, ret, writes) ==
  /\ inner.next_vfd <= SbxMaxVfd + 1
  /\ tables' = [tables EXCEPT ![1] = inner]
  /\ last' = [op |-> op, pid |-> 1, args |-> args, ret |-> ret]
  /\ hist' = (hist \/ writes)
  /\ UNCHANGED <<FD_TABLES, kin, mounts, kfds, objs, fs_data, fs_inode, fs_dentry,
                 fs_symlink, fs_seq>>

SbxAllocateStep ==
  \E entry \in SbxEntries :
    \E r \in {sandbox_allocate(tables[1], entry)} :
      SbxCall("allocate", <<>>, r.inner, Some(r.ret), TRUE)

SbxAllocateMinStep ==
  \E min_vfd \in SbxVfds, entry \in SbxEntries :
    \E r \in {sandbox_allocate_min(tables[1], min_vfd, entry)} :
      SbxCall("allocate_min", <<min_vfd>>, r.inner, Some(r.ret), TRUE)

SbxAllocateAtStep ==
  \E vfd \in SbxVfds, entry \in SbxEntries :
    \E r \in {sandbox_allocate_at(tables[1], vfd, entry)} :
      SbxCall("allocate_at", <<vfd>>, r.inner, None, TRUE)

SbxDeallocateStep ==
  \E vfd \in SbxVfds :
    \E r \in {sandbox_deallocate(tables[1], vfd)} :
      SbxCall("deallocate", <<vfd>>, r.inner, None, TRUE)

SbxDuplicateStep ==
  \E old_vfd \in SbxVfds :
    \E r \in {sandbox_duplicate(tables[1], old_vfd)} :
      SbxCall("duplicate", <<old_vfd>>, r.inner, r.ret, TRUE)

SbxDuplicateAtStep ==
  \E old_vfd \in SbxVfds, new_vfd \in SbxVfds :
    \E r \in {sandbox_duplicate_at(tables[1], old_vfd, new_vfd)} :
      SbxCall("duplicate_at", <<old_vfd, new_vfd>>, r.inner, None, TRUE)

\* translate is called for a vfd of the table or the one past the range
SbxTranslateStep ==
  \E vfd \in STDIN_FILENO..(SbxMaxVfd + 1) :
    SbxCall("translate", <<vfd>>, tables[1], sandbox_translate(tables[1], vfd), FALSE)

NextSbx ==
  \/ SbxAllocateStep
  \/ SbxAllocateMinStep
  \/ SbxAllocateAtStep
  \/ SbxDeallocateStep
  \/ SbxDuplicateStep
  \/ SbxDuplicateAtStep
  \/ SbxTranslateStep

SpecSbx == InitSbx /\ [][NextSbx]_vars

(***************************************************************************)
(* Listing a directory of the SQLite-backed VFS with getdents64.           *)
(***************************************************************************)
\* the byte of a character of a name
Ascii ==
  ("." :> 46) @@ ("B" :> 66) @@ ("a" :> 97) @@ ("b" :> 98)

\* memcmp order of two names, the order of ORDER BY on a TEXT column
RECURSIVE name_less(_, _)
name_less(x, y) ==
  IF y = <<>> THEN FALSE
  ELSE IF x = <<>> THEN TRUE
  ELSE IF Head(x) # Head(y) THEN Ascii[Head(x)] < Ascii[Head(y)]
  ELSE name_less(Tail(x), Tail(y))

\* the rows in the order of their insertion
RECURSIVE order_by_rowid(_)
order_by_rowid(rows) ==
  IF rows = {} THEN <<>>
  ELSE LET r == CHOOSE x \in rows : \A y \in rows : x.ino <= y.ino
       IN <<r>> \o order_by_rowid(rows \ {r})

\* ORDER BY d.name
RECURSIVE order_by_name(_)
order_by_name(rows) ==
  IF rows = {} THEN <<>>
  ELSE LET r == CHOOSE x \in rows : \A y \in rows \ {x} : name_less(x.name, y.name)
       IN <<r>> \o order_by_name(rows \ {r})

\* the d_type of an inode of the given mode
d_type_of(mode) ==
  CASE file_type(mode) = S_IFDIR -> DT_DIR
    [] file_type(mode) = S_IFREG -> DT_REG
    [] file_type(mode) = S_IFLNK -> DT_LNK
    [] OTHER -> DT_UNKNOWN

\* SqliteFile::getdents: nothing once dir_pos is set; otherwise ".", ".."
\* and the dentries below the inode of the file that have an inode, by
\* name, and dir_pos is set
SqliteFile_getdents(inode, dentry, file) ==
  LET rows == order_by_name({d \in dentry : d.parent_ino = file.ino /\ d.ino \in DOMAIN inode})
  IN IF file.dir_pos > 0 THEN [file |-> file, entries |-> <<>>]
     ELSE [file |-> [file EXCEPT !.dir_pos = 1],
           entries |->
             <<[ino |-> file.ino, name |-> <<".">>, d_type |-> DT_DIR],
               [ino |-> file.ino, name |-> <<".", ".">>, d_type |-> DT_DIR]>>
             \o [i \in 1..Len(rows) |->
                   [ino |-> rows[i].ino, name |-> rows[i].name,
                    d_type |-> d_type_of(inode[rows[i].ino].mode)]]]

\* the length of the linux_dirent64 record of a name, aligned to 8 bytes
reclen(name) == ((DIRENT_HEADER + (Len(name) + 1) + 7) \div 8) * 8

\* the loop of handle_getdents64 over the entries: the records that fit in
\* count bytes, each with the offset of its position
RECURSIVE pack_dirents(_, _, _, _)
pack_dirents(entries, count, buf_len, offset) ==
  IF entries = <<>> THEN <<>>
  ELSE IF buf_len + reclen(Head(entries).name) > count THEN <<>>
  ELSE <<[d_ino |-> Head(entries).ino, d_off |-> offset,
          d_reclen |-> reclen(Head(entries).name), d_type |-> Head(entries).d_type,
          d_name |-> Head(entries).name]>>
       \o pack_dirents(Tail(entries), count, buf_len + reclen(Head(entries).name),
                       offset + 1)

\* the bytes of a sequence of records
RECURSIVE buf_len_of(_)
buf_len_of(dirents) ==
  IF dirents = <<>> THEN 0 ELSE Head(dirents).d_reclen + buf_len_of(Tail(dirents))

\* handle_getdents64: dirent is the address of the guest's buffer, None for
\* a null pointer; info.buf is what is written there
handle_getdents64(st, vfd, dirent, count) ==
  LET e == get(st.inner, vfd)
  IN IF e = None THEN [st |-> st, ret |-> None, info |-> NoInfo]
     ELSE IF kernel_fd(e[1]) # None
     THEN [st |-> st,
           ret |-> Some(IF kernel_fd(e[1])[1] \in DOMAIN st.kfds THEN -ENOTDIR ELSE -EBADF),
           info |-> [NoInfo EXCEPT !.injected = Some(kernel_fd(e[1])[1])]]
     ELSE LET obj == e[1].file_ops.obj
              g == SqliteFile_getdents(st.fs_inode, st.fs_dentry, st.objs[obj])
              buf == pack_dirents(g.entries, count, 0, 1)
          IN IF dirent = None
             THEN [st |-> [st EXCEPT !.objs[obj] = g.file], ret |-> Some(-EFAULT),
                   info |-> NoInfo]
             ELSE [st |-> [st EXCEPT !.objs[obj] = g.file], ret |-> Some(buf_len_of(buf)),
                   info |-> [NoInfo EXCEPT !.buf = buf]]

(***************************************************************************)
(* One guest that opens the directories of the virtual mount and lists     *)
(* them, while entries are made in the store.                              *)
(***************************************************************************)
\* the entries made in the store
DirPaths == { <<"/", "a">>, <<"/", "B">>, <<"/", "a", "/", "b">> }

\* the paths the guest opens: the mount point and an entry below it
DirOpenPaths == {VirtMount, VirtMount \o <<"/", "a">>}

\* the vfds the guest names: stdin and the FD of its one open
DirVfds == {STDIN_FILENO, FIRST_USER_FD}

\* the sizes of the guest's buffer: room for two records, and a large one
DirCounts == {48, 32768}

\* the address of the guest's buffer
DirAddrs == {Some(1)}

InitDir ==
  /\ tables = (1 :> FdTableNew)
  /\ FD_TABLES = (SysPid :> 1)
  /\ kin = {<<SysPid, SysPid>>}
  /\ last = [op |-> "new", pid |-> SysPid, args |-> <<>>, ret |-> None,
             result |-> 0, info |-> NoInfo]
  /\ mounts = add_mount(MountTableNew, VirtMount, SqliteVfs(VirtMount))
  /\ kfds = KernelStdio
  /\ objs = <<>>
  /\ fs_data = {}
  /\ fs_inode = Filesystem_initialize(EmptyStore).inode
  /\ fs_dentry = {}
  /\ fs_symlink = <<>>
  /\ fs_seq = Filesystem_initialize(EmptyStore).seq
  /\ hist = {}

\* an entry is made in the store: a directory, a file or a symlink
DirCreateStep ==
  \E path \in DirPaths :
    \E r \in {Filesystem_mkdir(FsState, path),
              Filesystem_write_file(FsState, path, <<1>>),
              Filesystem_symlink(FsState, <<"/">>, path)} :
      /\ r.err = ""
      /\ r.fs.seq <= MaxIno
      /\ fs_inode' = r.fs.inode
      /\ fs_dentry' = r.fs.dentry
      /\ fs_data' = r.fs.data
      /\ fs_symlink' = r.fs.symlink
      /\ fs_seq' = r.fs.seq
      /\ last' = [op |-> "create", pid |-> SysPid, args |-> <<>>, ret |-> None,
                  result |-> 0, info |-> NoInfo]
      /\ UNCHANGED <<tables, FD_TABLES, kin, mounts, kfds, objs, hist>>

\* the guest opens a path of the virtual mount
DirOpenatStep == Openat(DirOpenPaths, FIRST_USER_FD)

\* the guest calls getdents64; hist keeps the open vfds it has called it on
GetdentsStep ==
  \E vfd \in DirVfds, dirent \in DirAddrs, count \in DirCounts :
    \E h \in {handle_getdents64(SysState, vfd, dirent, count)} :
      /\ tables' = [tables EXCEPT ![FD_TABLES[SysPid]] = h.st.inner]
      /\ objs' = h.st.objs
      /\ hist' = IF get(SysState.inner, vfd) # None THEN hist \cup {vfd} ELSE hist
      /\ last' = [op |-> "getdents64", pid |-> SysPid, args |-> <<vfd, dirent, count>>,
                  ret |-> h.ret,
                  result |-> IF h.ret = None THEN -EBADF ELSE h.ret[1],
                  info |-> h.info]
      /\ UNCHANGED <<FD_TABLES, kin, mounts, kfds, fs_data, fs_inode, fs_dentry,
                     fs_symlink, fs_seq>>

NextDir == DirCreateStep \/ DirOpenatStep \/ GetdentsStep

SpecDir == InitDir /\ [][NextDir]_vars

(***************************************************************************)
(* The guest lists a directory of the virtual mount with buffers of any    *)
(* size: hist keeps, for every vfd getdents64 was called on, the names the *)
(* directory held at the first call and the names delivered since.         *)
(***************************************************************************)
\* the sizes of the guest's buffer: room for one record, for two, for all
ListCounts == {reclen(<<"a">>), 2 * reclen(<<"a">>)} \cup DirCounts

InitList ==
  /\ tables = (1 :> FdTableNew)
  /\ FD_TABLES = (SysPid :> 1)
  /\ kin = {<<SysPid, SysPid>>}
  /\ last = [op |-> "new", pid |-> SysPid, args |-> <<>>, ret |-> None,
             result |-> 0, info |-> NoInfo]
  /\ mounts = add_mount(MountTableNew, VirtMount, SqliteVfs(VirtMount))
  /\ kfds = KernelStdio
  /\ objs = <<>>
  /\ fs_data = {}
  /\ fs_inode = Filesystem_initialize(EmptyStore).inode
  /\ fs_dentry = {}
  /\ fs_symlink = <<>>
  /\ fs_seq = Filesystem_initialize(EmptyStore).seq
  /\ hist = <<>>

\* the names in the directory behind the SqliteFile object obj
ListedNames(obj) ==
  {d.name : d \in {e \in fs_dentry : e.parent_ino = objs[obj].ino}}

\* the guest calls getdents64 on its open vfd
ListGetdentsStep ==
  \E vfd \in {FIRST_USER_FD}, dirent \in DirAddrs, count \in ListCounts :
    \E h \in {handle_getdents64(SysState, vfd, dirent, count)} :
      /\ get(SysState.inner, vfd) # None
      /\ tables' = [tables EXCEPT ![FD_TABLES[SysPid]] = h.st.inner]
      /\ objs' = h.st.objs
      /\ hist' =
           LET names == {h.info.buf[i].d_name : i \in 1..Len(h.info.buf)}
               e == get(SysState.inner, vfd)[1]
           IN IF vfd \in DOMAIN hist
              THEN [hist EXCEPT ![vfd].delivered = @ \cup names]
              ELSE MapInsert(hist, vfd,
                     [present |-> IF kernel_fd(e) = None
                                  THEN ListedNames(e.file_ops.obj) ELSE {},
                      delivered |-> names])
      /\ last' = [op |-> "getdents64", pid |-> SysPid, args |-> <<vfd, dirent, count>>,
                  ret |-> h.ret,
                  result |-> IF h.ret = None THEN -EBADF ELSE h.ret[1],
                  info |-> h.info]
      /\ UNCHANGED <<FD_TABLES, kin, mounts, kfds, fs_data, fs_inode, fs_dentry,
                     fs_symlink, fs_seq>>

NextList == DirCreateStep \/ DirOpenatStep \/ ListGetdentsStep

SpecList == InitList /\ [][NextList]_vars

(***************************************************************************)
(* Properties of the FD table.                                             *)
(***************************************************************************)
\* the smallest integer >= 3 that is not a key of entries
LowestUnused(entries) ==
  CHOOSE v \in FIRST_USER_FD..(MaxVfd + 2) :
    /\ v \notin DOMAIN entries
    /\ \A u \in FIRST_USER_FD..(v - 1) : u \in DOMAIN entries

\* C1: on a fresh table driven by allocate and deallocate only (deallocate
\* of any vfd, present or not), every vfd returned by allocate is >= 3 and
\* is the smallest integer >= 3 absent from the table when allocate is called
C1_AllocateLowest ==
  [][last'.op = "allocate" =>
       /\ last'.ret[1] >= FIRST_USER_FD
       /\ last'.ret[1] = LowestUnused(tables[FD_TABLES[last'.pid]].entries)]_vars

\* a freed vfd 3 is handed out again while vfd 4 is still in use
C1_Witness ==
  /\ last.op = "allocate"
  /\ last.ret = Some(3)
  /\ 4 \in DOMAIN tables[1].entries
  /\ tables[1].next_vfd = 5

\* C2: allocate returns the lowest unused vfd >= 3 in every table state,
\* also in the states reached through allocate_at and allocate_min
C2_AllocateLowestEverywhere ==
  [][last'.op = "allocate" =>
       last'.ret[1] = LowestUnused(tables[FD_TABLES[last'.pid]].entries)]_vars

(***************************************************************************)
(* Properties of the registry and of the two kinds of clone.               *)
(***************************************************************************)
TableOps ==
  {"allocate", "allocate_min", "allocate_at", "deallocate", "duplicate", "duplicate_at"}

\* what the handle of pid p shows: the vfds of its table, get and translate
\* of each, and the vfd the next allocate would return
HandleView(reg, heap, p) ==
  LET inner == heap[reg[p]]
  IN [vfds |-> DOMAIN inner.entries,
      get |-> [v \in DOMAIN inner.entries |-> inner.entries[v]],
      translate |-> [v \in DOMAIN inner.entries |->
                       IF inner.entries[v].file_ops.kind = "PassthroughFile"
                       THEN <<inner.entries[v].file_ops.fd>> ELSE <<>>],
      next |-> allocate(inner, SqliteFile(1), 0).ret]

\* C3: a table method called through one handle leaves every handle that
\* was separated from it by deep_clone unchanged: the same vfds, the same
\* get and translate for every vfd, the same next allocate
C3_DeepCloneIndependent ==
  [][last'.op \in TableOps =>
       \A q \in DOMAIN FD_TABLES :
         <<last'.pid, q>> \notin kin =>
           /\ q \in DOMAIN FD_TABLES'
           /\ HandleView(FD_TABLES', tables', q) = HandleView(FD_TABLES, tables, q)]_vars

\* the forked child 2 closed vfd 3 and the parent still has its vfd 3
C3_Witness ==
  /\ last.op = "deallocate" /\ last.pid = 2 /\ last.args = <<3>> /\ last.ret # None
  /\ 1 \in DOMAIN FD_TABLES /\ 2 \in DOMAIN FD_TABLES
  /\ <<1, 2>> \notin kin
  /\ 3 \in DOMAIN tables[FD_TABLES[1]].entries
  /\ 3 \notin DOMAIN tables[FD_TABLES[2]].entries

\* C4: the handles made by a shallow clone denote one table: get and
\* translate of every vfd agree through both, whichever handle was used to
\* install or remove entries
C4_SharedCloneSameTable ==
  \A pr \in kin :
    /\ pr[1] \in DOMAIN FD_TABLES /\ pr[2] \in DOMAIN FD_TABLES
    /\ \A v \in 0..ProcMaxVfd :
         /\ get(tables[FD_TABLES[pr[1]]], v) = get(tables[FD_TABLES[pr[2]]], v)
         /\ translate(tables[FD_TABLES[pr[1]]], v) = translate(tables[FD_TABLES[pr[2]]], v)

\* the thread 2 installed vfd 3 and the parent's handle returns that entry
C4_Witness ==
  /\ last.op = "allocate_at" /\ last.pid = 2 /\ last.args = <<3>>
  /\ <<1, 2>> \in kin
  /\ get(tables[FD_TABLES[1]], 3) = Some(FdEntry(SqliteFile(1), 0))

\* the table of pid p when its handler starts
TableAtEntry(p) == IF p \in DOMAIN FD_TABLES THEN tables[FD_TABLES[p]] ELSE FdTableNew

RECURSIVE split_str(_, _)
split_str(s, sep) ==
  IF \A i \in 1..Len(s) : s[i] # sep THEN <<s>>
  ELSE LET i == CHOOSE j \in 1..Len(s) :
                  s[j] = sep /\ \A k \in 1..(j - 1) : s[k] # sep
       IN <<SubSeq(s, 1, i - 1)>> \o split_str(SubSeq(s, i + 1, Len(s)), sep)

\* str::splitn(2, sep): the text before the first separator and the rest
splitn2(s, sep) ==
  IF \A i \in 1..Len(s) : s[i] # sep THEN <<s>>
  ELSE LET i == CHOOSE j \in 1..Len(s) :
                  s[j] = sep /\ \A k \in 1..(j - 1) : s[k] # sep
       IN <<SubSeq(s, 1, i - 1), SubSeq(s, i + 1, Len(s))>>

\* the loop of from_str over the parts: the options read, or the first error
RECURSIVE parse_options(_, _, _)
parse_options(parts, i, options) ==
  IF i > Len(parts) THEN Ok(options)
  ELSE LET kv == splitn2(parts[i], "=")
       IN IF Len(kv) # 2 THEN Err("Invalid mount option")
          ELSE IF kv[1] \in DOMAIN options THEN Err("Duplicate key")
          ELSE parse_options(parts, i + 1, options @@ (kv[1] :> kv[2]))

\* Path::is_absolute
is_absolute(path) == path # <<>> /\ path[1] = "/"

\* the directories of the host and its symbolic links; the working
\* directory is /
HostDirs == {<<"/", "tmp">>}

HostLinks == (<<"/", "lnk">> :> <<"/", "tmp">>)

\* std::fs::canonicalize: the absolute path with the links resolved, of a
\* path that exists
canonicalize(path) ==
  LET abs == IF is_absolute(path) THEN path ELSE <<"/">> \o path
      real == IF abs \in DOMAIN HostLinks THEN HostLinks[abs] ELSE abs
  IN IF real \in HostDirs THEN Ok(real) ELSE Err("Failed to canonicalize")

\* options.get(key).or_else(|| options.get(alias))
get_or_alias(options, key, alias) ==
  IF key \in DOMAIN options THEN Some(options[key]) ELSE MapGet(options, alias)

\* from_str with the type accepted when it is found in kinds
from_str_with(kinds, s) ==
  LET o == parse_options(split_str(s, ","), 1, <<>>)
  IN IF o.err # "" THEN Err(o.err)
     ELSE IF <<"type">> \notin DOMAIN o.val THEN Err("Missing required field 'type'")
     ELSE IF o.val[<<"type">>] \notin kinds THEN Err("Unsupported mount type")
     ELSE LET src_str == get_or_alias(o.val, <<"src">>, <<"source">>)
              dst_str == get_or_alias(o.val, <<"dst">>, <<"target">>)
          IN IF src_str = None THEN Err("requires 'src' field")
             ELSE IF dst_str = None THEN Err("requires 'dst' field")
             ELSE IF ~is_absolute(dst_str[1]) THEN Err("must be absolute")
             ELSE IF o.val[<<"type">>] # <<"sqlite">>
                  THEN LET src == canonicalize(src_str[1])
                       IN IF src.err # "" THEN Err(src.err)
                          ELSE Ok([mount_type |-> [kind |-> "Bind", src |-> src.val],
                                   dst |-> dst_str[1]])
                  ELSE Ok([mount_type |-> [kind |-> "Sqlite", src |-> src_str[1]],
                           dst |-> dst_str[1]])

\* a from_str that takes every type but sqlite for bind
from_str_any_type(s) ==
  from_str_with({<<"bind">>, <<"sqlite">>, <<"foobar">>}, s)

\* MountConfig::from_str
from_str(s) == from_str_with({<<"bind">>, <<"sqlite">>}, s)

\* the parts a specification is written with
MountParts ==
  { <<"type", "=", "bind">>, <<"type", "=", "sqlite">>, <<"type", "=", "foobar">>,
    <<"src", "=", "/", "tmp">>, <<"src", "=", "/", "gone">>,
    <<"source", "=", "/", "lnk">>,
    <<"dst", "=", "/", "data">>, <<"dst", "=", "rel">>,
    <<"target", "=", "/", "t">>,
    <<"invalid">> }

\* the parts joined with commas
RECURSIVE join_parts(_)
join_parts(parts) ==
  IF Len(parts) = 1 THEN parts[1]
  ELSE parts[1] \o <<",">> \o join_parts(Tail(parts))

\* the command line is parsed once, before any guest runs
ParseStep ==
  /\ last.op = "new"
  /\ \E n \in 1..MaxParts : \E parts \in [1..n -> MountParts] :
       \E s \in {join_parts(parts)} :
         last' = [op |-> "from_str", pid |-> 0, args |-> <<s>>, ret |-> from_str(s)]
  /\ UNCHANGED <<tables, FD_TABLES, kin, mounts, kfds, objs, fs_data, fs_inode,
                 fs_dentry, fs_symlink, fs_seq, hist>>

NextParse == ParseStep

SpecParse == InitMount /\ [][NextParse]_vars

(***************************************************************************)
(* Properties of the mount table.                                          *)
(***************************************************************************)
\* the mounts whose translate_path accepts path
Accepting(ms, path) == {i \in 1..Len(ms) : translate_path(ms[i].vfs, path) # None}

\* no two mounts have the same sandbox path
DistinctSandboxPaths(ms) ==
  \A i, j \in 1..Len(ms) : i # j => ms[i].sandbox_path # ms[j].sandbox_path

\* C5: for mounts with distinct sandbox paths added in any order, resolve(p)
\* returns the mount with the longest sandbox path among the mounts whose
\* translate_path accepts p, with that mount's translation of p, and returns
\* None exactly when no mount accepts p
C5_ResolveLongestPrefix ==
  (last.op = "resolve" /\ DistinctSandboxPaths(mounts)) =>
    LET path == last.args[1]
        acc == Accepting(mounts, path)
    IN IF acc = {} THEN last.ret = None
       ELSE LET i == CHOOSE k \in acc :
                       \A j \in acc : Len(mounts[j].sandbox_path) <= Len(mounts[k].sandbox_path)
            IN last.ret = Some([vfs |-> mounts[i].vfs,
                                translated |-> translate_path(mounts[i].vfs, path)[1]])

(***************************************************************************)
(* Properties of the SQLite-backed file.                                   *)
(***************************************************************************)
\* C10: on a newly created empty file, a write of b at offset 0, a seek to
\* offset 0 and a read of |b| bytes: the read returns |b| and the bytes b,
\* for b of any length, also longer than one chunk
C10_WriteReadRoundTrip ==
  (/\ Len(hist) = 3
   /\ hist[1].op = "write"
   /\ hist[2].op = "seek" /\ hist[2].args = <<0, SEEK_SET>>
   /\ hist[3].op = "read" /\ hist[3].args = <<Len(hist[1].args[1])>>)
  => /\ hist[3].ret = Some(Len(hist[1].args[1]))
     /\ hist[3].buf = hist[1].args[1]

\* three bytes, stored as more than one chunk, were written and read back
C10_Witness ==
  /\ Len(hist) = 3
  /\ hist[1].op = "write" /\ hist[1].args = << <<1, 0, 1>> >>
  /\ hist[2].args = <<0, SEEK_SET>>
  /\ hist[3].op = "read" /\ hist[3].args = <<3>>
  /\ Cardinality({r \in fs_data : r.ino = FileIno}) > 1
  /\ hist[3].buf = <<1, 0, 1>>

(***************************************************************************)
(* Properties of the handlers of read, close, dup and dup2.                *)
(***************************************************************************)
\* the FD table of the guest
GuestTable == tables[FD_TABLES[SysPid]]

\* C6: once close(vfd) of a passthrough vfd has returned 0, a read(vfd) that
\* follows is not answered by the handler, fails in the kernel with EBADF
\* and reads from no open file
C6_ReadAfterCloseFails ==
  [][(/\ last.op = "close"
      /\ last.ret = Some(0)
      /\ last.info.entry # None
      /\ kernel_fd(last.info.entry[1]) # None
      /\ last'.op = "read"
      /\ last'.args[1] = last.args[1])
     => (/\ last'.ret = None
         /\ last'.result = -EBADF
         /\ last'.info.source = None)]_vars

\* vfd v holds a file of the virtual mount in table inner
IsVirtualFd(inner, v) ==
  v \in DOMAIN inner.entries /\ inner.entries[v].file_ops.kind = "SqliteFile"

\* the bytes of the file with inode ino
ContentOf(ino) ==
  IF ino = InoA THEN ContentA ELSE IF ino = InoB THEN ContentB ELSE <<>>

\* C7: dup2(vfd1, vfd2) with both vfds open on the virtual mount returns
\* vfd2 and leaves vfd2 holding the file-object of vfd1, offset included; a
\* read through a vfd returns the bytes of its file-object's file at the
\* object's offset and advances that one offset; close of a virtual vfd
\* returns 0 and removes that vfd only, every other entry and its
\* file-object staying as they were
C7_Dup2SharesFileObject ==
  [][LET pre == GuestTable
         post == GuestTable'
         v == last'.args[1]
     IN /\ (last'.op = "dup2" /\ IsVirtualFd(pre, v) /\ IsVirtualFd(pre, last'.args[2])) =>
             LET new == last'.args[2]
                 obj == pre.entries[v].file_ops.obj
             IN /\ last'.ret = Some(new)
                /\ IsVirtualFd(post, new)
                /\ post.entries[new].file_ops = pre.entries[v].file_ops
                /\ post.entries[v].file_ops = pre.entries[v].file_ops
                /\ obj \in DOMAIN objs'
                /\ objs'[obj] = objs[obj]
        /\ (last'.op = "read" /\ IsVirtualFd(pre, v)) =>
             LET obj == pre.entries[v].file_ops.obj
                 off == objs[obj].offset
                 bytes == ContentOf(objs[obj].ino)
                 expect == SubSeq(bytes, off + 1, Min(Len(bytes), off + ReadLen))
             IN /\ last'.ret = Some(Len(expect))
                /\ last'.info.buf = expect
                /\ objs'[obj].offset = off + Len(expect)
                /\ post = pre
        /\ (last'.op = "close" /\ IsVirtualFd(pre, v)) =>
             /\ last'.ret = Some(0)
             /\ v \notin DOMAIN post.entries
             /\ \A u \in (DOMAIN pre.entries) \ {v} :
                  /\ u \in DOMAIN post.entries
                  /\ post.entries[u] = pre.entries[u]
                  /\ IsVirtualFd(pre, u) =>
                       /\ pre.entries[u].file_ops.obj \in DOMAIN objs'
                       /\ objs'[pre.entries[u].file_ops.obj] = objs[pre.entries[u].file_ops.obj]]_vars

\* dup2(3, 4) returned 4 when vfd 3 held file a at offset 2 and vfd 4 held
\* another file-object of the virtual mount: both vfds now hold the
\* file-object of vfd 3, still at offset 2
C7_Witness ==
  /\ last.op = "dup2" /\ last.args = <<3, 4>> /\ last.ret = Some(4)
  /\ last.info.entry # None
  /\ last.info.entry[1].file_ops.kind = "SqliteFile"
  /\ last.info.entry[1].file_ops # GuestTable.entries[3].file_ops
  /\ GuestTable.entries[4].file_ops = GuestTable.entries[3].file_ops
  /\ objs[GuestTable.entries[3].file_ops.obj] = [ino |-> InoA, offset |-> 2, dir_pos |-> 0]

\* C8: dup(old) of a passthrough vfd returns a new vfd, different from old,
\* whose entry holds the kernel FD that the injected dup returned, so that
\* old and new translate to different kernel FDs
C8_DupUsesNewKernelFd ==
  [][(/\ last'.op = "dup"
      /\ translate(GuestTable, last'.args[1]) # None
      /\ last'.ret # None
      /\ last'.ret[1] >= 0)
     => (/\ last'.ret[1] # last'.args[1]
         /\ translate(GuestTable', last'.ret[1]) = last'.info.injected
         /\ translate(GuestTable', last'.ret[1]) # translate(GuestTable', last'.args[1]))]_vars

(***************************************************************************)
(* Properties of the Filesystem of the SDK and of the store.               *)
(***************************************************************************)
\* C11: once remove of a path succeeded (whatever created the entry: mkdir,
\* write_file or symlink), stat and lstat of that path report not found, and
\* a second remove of the path fails and leaves the store as it is
C11_RemovedPathNotFound ==
  (last.op = "remove" /\ last.ret.err = "") =>
    LET path == last.args[1]
    IN /\ Filesystem_stat(FsState, path).res = Ok(None)
       /\ Filesystem_lstat(FsState, path) = Ok(None)
       /\ Filesystem_remove(FsState, path).err # ""
       /\ Filesystem_remove(FsState, path).fs = FsState

\* the entry made at "/a" was removed through the spelling "a/": the store
\* holds the root alone again
C11_Witness ==
  /\ last.op = "remove" /\ last.ret.err = "" /\ last.args = << <<"a", "/">> >>
  /\ fs_seq = 2
  /\ DOMAIN fs_inode = {ROOT_INO}
  /\ fs_dentry = {}

\* whether path names the root, or a directory with at least one entry
RootOrNonEmptyDir(fs, path) ==
  LET ino == Filesystem_resolve_path(fs, normalize_path(path))
  IN /\ ino # None
     /\ \/ ino[1] = ROOT_INO
        \/ /\ ino[1] \in DOMAIN fs.inode
           /\ file_type(fs.inode[ino[1]].mode) = S_IFDIR
           /\ \E d \in fs.dentry : d.parent_ino = ino[1]

\* C15: remove of the root or of a directory with at least one entry fails
\* and leaves every table of the store as it was
C15_RemoveRefused ==
  [][(last'.op = "remove" /\ RootOrNonEmptyDir(FsState, last'.args[1]))
     => (last'.ret.err # "" /\ FsState' = FsState)]_vars

\* remove of the directory "/a" that holds "/a/b" was refused
C15_Witness ==
  /\ last.op = "remove" /\ last.args = << <<"/", "a">> >>
  /\ last.ret.err = "Directory not empty"
  /\ \E d \in fs_dentry :
       /\ d.parent_ino = ROOT_INO /\ d.name = <<"a">>
       /\ file_type(fs_inode[d.ino].mode) = S_IFDIR
       /\ \E e \in fs_dentry : e.parent_ino = d.ino /\ e.name = <<"b">>

\* no two rows of fs_dentry share (parent_ino, name)
DentryUnique(dentry) ==
  \A d, e \in dentry : (d.parent_ino = e.parent_ino /\ d.name = e.name) => d = e

\* the ino the store resolves the path of a call to: the Filesystem resolves
\* its own paths, the VFS resolves the guest path of an open
Existing(op, path) ==
  IF op = "open" THEN resolve_path(SqliteVfs(VirtMount), fs_dentry, path)
  ELSE Filesystem_resolve_path(FsState, normalize_path(path))

\* C16: after every call no two dentries share (parent_ino, name); mkdir and
\* symlink on a path that resolves fail and change nothing; write_file and
\* open with O_CREAT on a path that resolves add no dentry and no inode, and
\* the open yields the inode the path resolved to
C16_DentryUniqueness ==
  [][/\ DentryUnique(fs_dentry')
     /\ (last'.op \in {"mkdir", "symlink"} /\ Existing(last'.op, last'.args[1]) # None)
          => (last'.ret.err # "" /\ FsState' = FsState)
     /\ (last'.op \in {"write_file", "open"} /\ Existing(last'.op, last'.args[1]) # None)
          => /\ fs_dentry' = fs_dentry
             /\ DOMAIN fs_inode' = DOMAIN fs_inode
             /\ last'.op = "open" => last'.ret.val = Existing("open", last'.args[1])]_vars

\* an open with O_CREAT of "/v/a" returned the inode 2 the path had, in a
\* store that has handed out inode 3 as well
C16_Witness ==
  /\ last.op = "open" /\ last.args[1] = VirtMount \o <<"/", "a">>
  /\ last.ret.val = Some(2)
  /\ fs_seq = 3
  /\ Cardinality({d \in fs_dentry : d.parent_ino = ROOT_INO /\ d.name = <<"a">>}) = 1

\* the referential integrity of the four tables
StoreConsistent(fs) ==
  /\ \A d \in fs.dentry :
       /\ d.ino \in DOMAIN fs.inode
       /\ d.parent_ino \in DOMAIN fs.inode
       /\ build_stats_from_row(fs, d.ino).nlink
            = Cardinality({e \in fs.dentry : e.ino = d.ino})
  /\ \A ino \in DOMAIN fs.inode : ino # ROOT_INO => \E d \in fs.dentry : d.ino = ino
  /\ \A r \in fs.data : r.ino \in DOMAIN fs.inode
  /\ DOMAIN fs.symlink \subseteq DOMAIN fs.inode

\* C17: after every call of mkdir, write_file, symlink and remove the link
\* count reported for an inode is the number of its dentries, every inode but
\* the root has a dentry, every dentry names existing inodes, data and
\* symlink rows belong to existing inodes; the remove that deletes the last
\* dentry of an inode deletes its inode, data and symlink rows as well
C17_LinkCountAndCascade ==
  [][/\ StoreConsistent(FsState')
     /\ (last'.op = "remove" /\ last'.ret.err = "")
          => LET ino == Filesystem_resolve_path(FsState, normalize_path(last'.args[1]))[1]
             IN (\A d \in fs_dentry' : d.ino # ino)
                  => /\ ino \notin DOMAIN fs_inode'
                     /\ ino \notin DOMAIN fs_symlink'
                     /\ \A r \in fs_data' : r.ino # ino]_vars

\* the entry "/b" was removed together with its inode while "/a" stayed
C17_Witness ==
  /\ last.op = "remove" /\ last.ret.err = "" /\ last.args = << <<"/", "b">> >>
  /\ fs_seq = 3
  /\ Cardinality(DOMAIN fs_inode) = 2
  /\ Cardinality(fs_dentry) = 1

\* inode 1 exists and is a directory
RootIsDirectory ==
  /\ ROOT_INO \in DOMAIN fs_inode
  /\ file_type(fs_inode[ROOT_INO].mode) = S_IFDIR

\* C18: inode 1 exists with directory type bits in every state, and the
\* initialization of an initialized store adds no row and changes none
C18_RootAlwaysDirectory ==
  /\ []RootIsDirectory
  /\ [][last'.op = "initialize" => FsState' = FsState]_vars

\* a store that holds entries was initialized again
C18_Witness ==
  /\ last.op = "initialize"
  /\ fs_seq = 3
  /\ Cardinality(fs_dentry) = 2

\* ---------------------------------------------------------------------
\* Properties of stat over symbolic links
\* ---------------------------------------------------------------------

\* TRUE iff the entry at path p is a symbolic link
IsLink(fs, p) ==
  LET ino == Filesystem_resolve_path(fs, p)
  IN /\ ino # None
     /\ ino[1] \in DOMAIN fs.inode
     /\ file_type(fs.inode[ino[1]].mode) = S_IFLNK

\* the path the link at p names
LinkTarget(fs, p) == follow(p, fs.symlink[Filesystem_resolve_path(fs, p)[1]])

\* TRUE iff following the links from p comes back to a link already passed
RECURSIVE EntersCycle(_, _, _)
EntersCycle(fs, p, seen) ==
  IF ~IsLink(fs, p) THEN FALSE
  ELSE IF p \in seen THEN TRUE
  ELSE EntersCycle(fs, LinkTarget(fs, p), seen \cup {p})

\* C12: stat of a path whose links form a cycle ends after at most 40 follows
\* with the error 'Too many levels of symbolic links' and never returns stats.
C12_CycleStatTerminates ==
  (last.op = "stat" /\ EntersCycle(FsState, normalize_path(last.args[1]), {})) =>
    /\ last.ret.res.err = "Too many levels of symbolic links"
    /\ last.ret.res.val = None
    /\ last.ret.follows <= max_symlink_depth

\* a stat through a chain of links that ends in a cycle of two has answered
C12_Witness ==
  /\ last.op = "stat"
  /\ last.args[1] = LinkPath(2)
  /\ ChainLen(FsState) = 2
  /\ IsLink(FsState, CyclePath)
  /\ IsLink(FsState, LinkPath(0))
  /\ LinkTarget(FsState, LinkPath(0)) = CyclePath
  /\ LinkTarget(FsState, CyclePath) = LinkPath(0)
  /\ last.ret.res.err = "Too many levels of symbolic links"
  /\ last.ret.follows = max_symlink_depth

\* the stats of the file or directory at the end of the chain
BaseStats(fs) == build_stats_from_row(fs, Filesystem_resolve_path(fs, LinkPath(0))[1])

\* C13: stat through a chain of n links that ends at a file or a directory
\* returns the stats of that file or directory for every n <= 40, and fails
\* with 'Too many levels of symbolic links' only for n > 40.
C13_StatFollowsFortyLinks ==
  \A n \in 0..MaxChain :
    ( /\ last.op = "stat"
      /\ last.args[1] = LinkPath(n)
      /\ n <= ChainLen(FsState)
      /\ Filesystem_resolve_path(FsState, LinkPath(0)) # None
      /\ ~IsLink(FsState, LinkPath(0)) ) =>
        IF n <= max_symlink_depth
        THEN last.ret.res = Ok(Some(BaseStats(FsState)))
        ELSE last.ret.res.err = "Too many levels of symbolic links"

\* ---------------------------------------------------------------------
\* Properties of getdents64 on a directory of the virtual mount
\* ---------------------------------------------------------------------

\* the large buffer of the guest
LargeCount == CHOOSE c \in DirCounts : \A d \in DirCounts : d <= c

\* TRUE iff name x comes before name y in ascending order of their bytes
NameBefore(x, y) ==
  \E k \in 1..(Len(y)) :
    /\ \A j \in 1..(k - 1) : j <= Len(x) /\ x[j] = y[j]
    /\ \/ k = Len(x) + 1
       \/ k <= Len(x) /\ Ascii[x[k]] < Ascii[y[k]]

\* the inode behind the virtual FD v of the guest
InoOfVfd(v) == objs[GuestTable.entries[v].file_ops.obj].ino

\* TRUE iff v is a virtual FD of the guest on a directory
IsVirtualDirFd(v) ==
  /\ IsVirtualFd(GuestTable, v)
  /\ InoOfVfd(v) \in DOMAIN fs_inode
  /\ file_type(fs_inode[InoOfVfd(v)].mode) = S_IFDIR

\* the names of the entries of the directory ino
ChildNames(ino) == {d.name : d \in {e \in fs_dentry : e.parent_ino = ino}}

\* C14: the first getdents64 with a large buffer on a virtual directory FD
\* returns '.', '..' and then every entry of the directory in ascending
\* order of name; every later getdents64 on the same FD returns 0.
C14_GetdentsListsOnce ==
  [][ \A v \in DirVfds :
        (last'.op = "getdents64" /\ last'.args[1] = v /\ IsVirtualDirFd(v)) =>
          LET buf == last'.info.buf
              n == Len(buf)
          IN IF v \in hist THEN last'.result = 0 /\ buf = <<>>
             ELSE last'.args[3] = LargeCount =>
                    /\ last'.result > 0
                    /\ n = 2 + Cardinality(ChildNames(InoOfVfd(v)))
                    /\ buf[1].d_name = <<".">>
                    /\ buf[2].d_name = <<".", ".">>
                    /\ {buf[i].d_name : i \in 3..n} = ChildNames(InoOfVfd(v))
                    /\ \A i \in 3..(n - 1) : NameBefore(buf[i].d_name, buf[i + 1].d_name)
    ]_vars

\* the root of the mount, where "a" was made before "B", has been listed:
\* "B" comes before "a"
C14_Witness ==
  /\ last.op = "getdents64"
  /\ last.args = <<FIRST_USER_FD, Some(1), LargeCount>>
  /\ IsVirtualDirFd(FIRST_USER_FD)
  /\ InoOfVfd(FIRST_USER_FD) = ROOT_INO
  /\ Len(last.info.buf) = 4
  /\ [i \in 1..4 |-> last.info.buf[i].d_name] = << <<".">>, <<".", ".">>, <<"B">>, <<"a">> >>
  /\ last.info.buf[3].d_ino > last.info.buf[4].d_ino
  /\ last.result = 4 * reclen(<<"a">>)

\* ---------------------------------------------------------------------
\* Properties of the FdTable of the sandbox crate
\* ---------------------------------------------------------------------

\* C19: translate(vfd) returns the kernel FD k exactly when the table holds
\* a passthrough entry with kernel FD k at vfd, and None when vfd is absent
\* or virtual; on a fresh table it returns 0, 1, 2 for 0, 1, 2 and a kernel
\* FD for no other vfd.
C19_TranslatePassthroughOnly ==
  last.op = "translate" =>
    LET v == last.args[1]
        entries == tables[1].entries
    IN /\ (v \in DOMAIN entries /\ entries[v].kind = "Passthrough") =>
            last.ret = <<entries[v].kernel_fd>>
       /\ (v \notin DOMAIN entries \/ entries[v].kind = "Virtual") => last.ret = <<>>
       /\ ~hist =>
            last.ret = IF v \in {STDIN_FILENO, STDOUT_FILENO, STDERR_FILENO}
                       THEN <<v>> ELSE <<>>

\* translate has answered None for a virtual entry next to a passthrough
\* entry that was made after FdTable::new
C19_Witness ==
  /\ last.op = "translate"
  /\ last.ret = <<>>
  /\ last.args[1] \in DOMAIN tables[1].entries
  /\ tables[1].entries[last.args[1]].kind = "Virtual"
  /\ \E u \in DOMAIN tables[1].entries :
       /\ u >= FIRST_USER_FD
       /\ tables[1].entries[u].kind = "Passthrough"
       /\ tables[1].entries[u].kernel_fd # u

\* ---------------------------------------------------------------------
\* Properties of translate_path of the bind mount
\* ---------------------------------------------------------------------

\* s without the separators it starts with
RECURSIVE SkipSeparators(_)
SkipSeparators(s) ==
  IF s # <<>> /\ Head(s) = "/" THEN SkipSeparators(Tail(s)) ELSE s

\* TRUE iff p is R, or p starts with R and goes on at a boundary of path
\* components: R ends in a separator or the next character of p is one
BelowRoot(R, p) ==
  \/ p = R
  \/ /\ Len(p) > Len(R)
     /\ SubSeq(p, 1, Len(R)) = R
     /\ (R[Len(R)] = "/" \/ p[Len(R) + 1] = "/")

\* the host path of p: H for R itself, H joined with the rest of p otherwise
HostPathOf(H, R, p) ==
  LET rest == SkipSeparators(SubSeq(p, Len(R) + 1, Len(p)))
  IN IF rest = <<>> THEN H ELSE H \o <<"/">> \o rest

\* C20: a bind mount with sandbox root R and host root H accepts p exactly
\* when p is R or lies below R on a boundary of path components, for every
\* absolute R, R = / included; the result is H for p = R and H joined with
\* the rest of p otherwise.
C20_BindAcceptsBelowRoot ==
  (last.op = "resolve" /\ Len(mounts) = 1) =>
    LET R == mounts[1].vfs.sandbox_root
        H == mounts[1].vfs.host_root
        p == last.args[1]
    IN IF BelowRoot(R, p)
       THEN last.ret # <<>> /\ last.ret[1].translated = HostPathOf(H, R, p)
       ELSE last.ret = <<>>

\* ---------------------------------------------------------------------
\* Properties of the handlers of the guest's syscalls
\* ---------------------------------------------------------------------

\* the errno the guest is to receive for a VfsError
ErrnoOf(err) ==
  IF err = "NotFound" THEN -ENOENT
  ELSE IF err = "PermissionDenied" THEN -EACCES
  ELSE -EIO

\* TRUE iff the store has an entry with this name below the root
HasRootEntry(name) == \E d \in fs_dentry : d.parent_ino = ROOT_INO /\ d.name = name

\* C21: when the open of a path of a virtual mount fails, the guest receives
\* -ENOENT for NotFound (a missing file without O_CREAT, a missing parent
\* directory), -EACCES for PermissionDenied and -EIO for every other error;
\* no vfd is allocated, the FdTable is unchanged and nothing is injected.
C21_VirtualOpenErrors ==
  /\ \A err \in {"NotFound", "PermissionDenied", "InvalidInput", "Other"} :
       vfs_errno(err) = ErrnoOf(err)
  /\ [][ \A path \in CreatPaths, flags \in {0, O_CREAT} :
           (last'.op = "openat" /\ last'.args = <<path, flags>>) =>
             LET f == open_file(SqliteVfs(VirtMount), SysState, path, flags)
             IN /\ f.ret = None =>
                     /\ last'.ret = Some(ErrnoOf(f.err))
                     /\ tables' = tables
                     /\ kfds' = kfds
                     /\ last'.info.injected = None
                /\ (flags = 0 /\ path = VirtMount \o <<"/", "c">> /\ ~HasRootEntry(<<"c">>)) =>
                     last'.ret = Some(-ENOENT)
                /\ (path = VirtMount \o <<"/", "x", "/", "y">> /\ ~HasRootEntry(<<"x">>)) =>
                     last'.ret = Some(-ENOENT)
     ]_vars

\* an open with O_CREAT below a missing directory has failed with ENOENT
\* while the guest holds a virtual FD
C21_Witness ==
  /\ last.op = "openat"
  /\ last.args = <<VirtMount \o <<"/", "x", "/", "y">>, O_CREAT>>
  /\ last.ret = Some(-ENOENT)
  /\ IsVirtualFd(GuestTable, FIRST_USER_FD)
  /\ FIRST_USER_FD + 1 \notin DOMAIN GuestTable.entries

\* TRUE iff v is a passthrough vfd of the table inner
IsPassthroughFd(inner, v) ==
  v \in DOMAIN inner.entries /\ inner.entries[v].file_ops.kind = "PassthroughFile"

\* the smallest vfd from n on that is not in the table
SmallestAbsentFrom(inner, n) ==
  CHOOSE w \in n..(n + Cardinality(DOMAIN inner.entries)) :
    /\ w \notin DOMAIN inner.entries
    /\ \A u \in n..(w - 1) : u \in DOMAIN inner.entries

\* C22: F_DUPFD and F_DUPFD_CLOEXEC with minimum n on a passthrough vfd
\* return the smallest vfd >= n that is not in the table; its entry holds
\* the new kernel FD, with flags O_CLOEXEC for F_DUPFD_CLOEXEC and 0 for
\* F_DUPFD; no call that hands out a vfd hands out one that is in the
\* table; when the kernel call fails its error is returned and the table is
\* unchanged.
C22_FcntlDupfd ==
  [][ /\ \A v \in FcntlVfds, n \in FcntlVfds :
           \A cmd \in {"F_DUPFD", "F_DUPFD_CLOEXEC"} :
             (last'.op = "fcntl" /\ last'.args = <<v, cmd, n>>
                /\ IsPassthroughFd(GuestTable, v)) =>
               LET k == last'.info.injected[1]
                   w == SmallestAbsentFrom(GuestTable, n)
                   after == tables'[FD_TABLES[SysPid]]
               IN IF k >= 0
                  THEN /\ last'.ret = Some(w)
                       /\ k \notin DOMAIN kfds /\ k \in DOMAIN kfds'
                       /\ DOMAIN after.entries = DOMAIN GuestTable.entries \cup {w}
                       /\ after.entries[w].file_ops = PassthroughFile(k)
                       /\ after.entries[w].flags = IF cmd = "F_DUPFD_CLOEXEC" THEN O_CLOEXEC ELSE 0
                       /\ \A u \in DOMAIN GuestTable.entries :
                            after.entries[u] = GuestTable.entries[u]
                  ELSE /\ last'.ret = Some(k)
                       /\ tables' = tables
                       /\ kfds' = kfds
      /\ ( /\ last'.op \in {"openat", "dup", "fcntl"}
           /\ last'.op = "fcntl" => last'.args[2] # "F_GETFD"
           /\ last'.ret # None
           /\ last'.ret[1] >= 0 ) =>
             last'.ret[1] \notin DOMAIN GuestTable.entries
    ]_vars

\* F_DUPFD_CLOEXEC with minimum 4 on a passthrough vfd has returned 4 while
\* vfd 3 was free
C22_Witness ==
  /\ last.op = "fcntl"
  /\ last.args[2] = "F_DUPFD_CLOEXEC"
  /\ last.args[3] = FIRST_USER_FD + 1
  /\ last.ret = Some(FIRST_USER_FD + 1)
  /\ FIRST_USER_FD \notin DOMAIN GuestTable.entries
  /\ GuestTable.entries[FIRST_USER_FD + 1].flags = O_CLOEXEC
  /\ GuestTable.entries[FIRST_USER_FD + 1].file_ops.fd = FIRST_USER_FD

\* the elements of a sequence
Range(q) == {q[i] : i \in 1..Len(q)}

\* C23: close(vfd) of a vfd of the table removes its entry (get and
\* translate then return None) and, if vfd >= 3, makes it available to
\* later allocations; for a passthrough entry a kernel close of that
\* entry's kernel FD is injected and its result returned, for a virtual
\* entry nothing is injected and 0 is returned; close of a vfd that is not
\* in the table leaves the table unchanged.
C23_CloseRemovesEntry ==
  [][ \A v \in {STDERR_FILENO} \cup FcntlUserVfds :
        (last'.op = "close" /\ last'.args = <<v>>) =>
          LET after == tables'[FD_TABLES[SysPid]]
          IN IF v \notin DOMAIN GuestTable.entries
             THEN tables' = tables /\ last'.ret = None
             ELSE /\ get(after, v) = None /\ translate(after, v) = None
                  /\ \A u \in DOMAIN GuestTable.entries \ {v} :
                       u \in DOMAIN after.entries /\ after.entries[u] = GuestTable.entries[u]
                  /\ (v >= FIRST_USER_FD) <=> (v \in Range(after.free_fds))
                  /\ v >= FIRST_USER_FD => allocate(after, PassthroughFile(0), 0).ret <= v
                  /\ IF IsPassthroughFd(GuestTable, v)
                     THEN LET k == GuestTable.entries[v].file_ops.fd
                          IN /\ DOMAIN kfds' = DOMAIN kfds \ {k}
                             /\ last'.ret = Some(IF k \in DOMAIN kfds THEN 0 ELSE -EBADF)
                     ELSE /\ kfds' = kfds
                          /\ last'.ret = Some(0)
    ]_vars

\* the guest has closed its passthrough vfd 4 while the virtual vfd 3 stays
\* open: kernel FD 3 is closed and vfd 4 is free again
C23_Witness ==
  /\ last.op = "close"
  /\ last.args = <<FIRST_USER_FD + 1>>
  /\ last.ret = Some(0)
  /\ last.info.entry # None
  /\ last.info.entry[1].file_ops = PassthroughFile(FIRST_USER_FD)
  /\ FIRST_USER_FD \notin DOMAIN kfds
  /\ IsVirtualFd(GuestTable, FIRST_USER_FD)
  /\ GuestTable.free_fds = <<FIRST_USER_FD + 1>>

\* ---------------------------------------------------------------------
\* Properties of duplicate and duplicate_at
\* ---------------------------------------------------------------------

\* C24: duplicate(old) returns None and changes nothing when old is not in
\* the table; otherwise it returns a vfd different from old, the one
\* allocate would choose, whose entry has old's file-object and flags, and
\* old's entry is unchanged.  duplicate_at(old, new) installs that entry at
\* new and returns the entry that was at new before, or None.
C24_DuplicateCopiesEntry ==
  [][ \A old \in CopyVfds, new \in CopyVfds :
        LET before == tables[1]
            after == tables'[1]
        IN /\ (last'.op = "duplicate" /\ last'.args = <<old>>) =>
                IF old \notin DOMAIN before.entries
                THEN last'.ret = None /\ after = before
                ELSE \E w \in DOMAIN after.entries :
                       /\ last'.ret = Some(w)
                       /\ w # old
                       /\ w \notin DOMAIN before.entries
                       /\ w = allocate(before, PassthroughFile(0), 0).ret
                       /\ after.entries[w].file_ops = before.entries[old].file_ops
                       /\ after.entries[w].flags = before.entries[old].flags
                       /\ \A u \in DOMAIN before.entries :
                            after.entries[u] = before.entries[u]
           /\ (last'.op = "duplicate_at" /\ last'.args = <<old, new>>) =>
                IF old \notin DOMAIN before.entries
                THEN last'.ret = None /\ after = before
                ELSE /\ last'.ret = (IF new \in DOMAIN before.entries
                                     THEN Some(before.entries[new]) ELSE None)
                     /\ DOMAIN after.entries = DOMAIN before.entries \cup {new}
                     /\ after.entries[new] = before.entries[old]
                     /\ \A u \in DOMAIN before.entries \ {new} :
                          after.entries[u] = before.entries[u]
    ]_vars

\* a duplicate of an entry with flags O_CLOEXEC has taken the freed vfd 3
C24_Witness ==
  /\ last.op = "duplicate"
  /\ last.args = <<FIRST_USER_FD + 1>>
  /\ last.ret = Some(FIRST_USER_FD)
  /\ tables[1].entries[FIRST_USER_FD].flags = O_CLOEXEC
  /\ tables[1].entries[FIRST_USER_FD] = tables[1].entries[FIRST_USER_FD + 1]
  /\ tables[1].next_vfd = FIRST_USER_FD + 2

\* ---------------------------------------------------------------------
\* Properties of the parsing of a mount specification
\* ---------------------------------------------------------------------
\* the parts of the specification s, as the text between its commas
PartsOf(s) == split_str(s, ",")

HasEquals(part) == \E i \in 1..Len(part) : part[i] = "="

KeyOf(part) == splitn2(part, "=")[1]

ValueOf(part) == splitn2(part, "=")[2]

\* the values given for key in s
ValuesOf(s, key) ==
  {ValueOf(PartsOf(s)[i]) : i \in {j \in 1..Len(PartsOf(s)) : KeyOf(PartsOf(s)[j]) = key}}

\* the value of key or, when key is not given, of its alias
Given(s, key, alias) ==
  IF ValuesOf(s, key) # {} THEN ValuesOf(s, key) ELSE ValuesOf(s, alias)

\* the host paths that exist, each with its canonical form
HostExisting ==
  (<<"/", "tmp">> :> <<"/", "tmp">>) @@ (<<"/", "lnk">> :> <<"/", "tmp">>)

\* the specification is well formed, in the words of the claim
WellFormed(s) ==
  /\ \A i \in 1..Len(PartsOf(s)) : HasEquals(PartsOf(s)[i])
  /\ \A i, j \in 1..Len(PartsOf(s)) :
       i # j => KeyOf(PartsOf(s)[i]) # KeyOf(PartsOf(s)[j])
  /\ ValuesOf(s, <<"type">>) \subseteq {<<"bind">>, <<"sqlite">>}
  /\ ValuesOf(s, <<"type">>) # {}
  /\ Given(s, <<"src">>, <<"source">>) # {}
  /\ Given(s, <<"dst">>, <<"target">>) # {}
  /\ \A d \in Given(s, <<"dst">>, <<"target">>) : d # <<>> /\ d[1] = "/"
  /\ ValuesOf(s, <<"type">>) = {<<"bind">>} =>
       \A src \in Given(s, <<"src">>, <<"source">>) : src \in DOMAIN HostExisting

\* C25: parsing a mount specification succeeds exactly when every part has
\* the form key=value, no key occurs twice, type is bind or sqlite, a source
\* and a destination are given, the destination is absolute and, for bind,
\* the source exists; the result then carries the destination as given and,
\* for bind, the canonicalised source; otherwise it is an error without a
\* mount configuration.
C25_ParseMountSpec ==
  last.op = "from_str" =>
    LET s == last.args[1]
    IN IF WellFormed(s)
       THEN /\ last.ret.err = ""
            /\ {last.ret.val.dst} = Given(s, <<"dst">>, <<"target">>)
            /\ ValuesOf(s, <<"type">>) = {<<"bind">>} =>
                 /\ last.ret.val.mount_type.kind = "Bind"
                 /\ \A src \in Given(s, <<"src">>, <<"source">>) :
                      last.ret.val.mount_type.src = HostExisting[src]
            /\ ValuesOf(s, <<"type">>) = {<<"sqlite">>} =>
                 last.ret.val.mount_type.kind = "Sqlite"
       ELSE last.ret.err # "" /\ last.ret.val = None

\* a bind mount given through the aliases, its source a symbolic link
C25_Witness ==
  /\ last.op = "from_str"
  /\ last.args[1] = <<"type", "=", "bind", ",", "source", "=", "/", "lnk", ",",
                      "target", "=", "/", "t">>
  /\ last.ret.err = ""
  /\ last.ret.val.dst = <<"/", "t">>
  /\ last.ret.val.mount_type = [kind |-> "Bind", src |-> <<"/", "tmp">>]

\* ---------------------------------------------------------------------
\* Properties of a write at an offset
\* ---------------------------------------------------------------------

\* C26: a write of n > 0 bytes through a file-object at offset o returns n,
\* advances the offset to o + n and sets the size of the inode to the larger
\* of its previous size and o + n; no write ever decreases the size.
C26_WriteExtendsSize ==
  [][ last'.op = "write" =>
        LET n == Len(last'.args[1])
            o == objs[FileObj].offset
            size == fs_inode[FileIno].size
        IN /\ n > 0 =>
                /\ last'.ret = Some(n)
                /\ objs'[FileObj].offset = o + n
                /\ fs_inode'[FileIno].size = (IF size > o + n THEN size ELSE o + n)
           /\ fs_inode'[FileIno].size >= size
    ]_vars

\* a write of one byte at offset 1 of a file of three bytes
C26_Witness ==
  /\ last.op = "write"
  /\ last.args = << <<1>> >>
  /\ last.ret = Some(1)
  /\ objs[FileObj].offset = 2
  /\ fs_inode[FileIno].size = 3

\* ---------------------------------------------------------------------
\* Properties of dup2 and dup3 with a passthrough source
\* ---------------------------------------------------------------------

\* C27: dup2 and dup3 whose source is a passthrough vfd first duplicate the
\* source's kernel FD to a fresh kernel FD, then close the kernel FD that
\* the target vfd held, if any, then install the new entry at the target;
\* so dup2(v, v) leaves v mapped to an open kernel FD, and when the kernel's
\* dup fails nothing is closed and the table is unchanged.
C27_DupThenCloseThenInstall ==
  [][ \A v \in DupToVfds, t \in DupToVfds :
        (/\ last'.op \in {"dup2", "dup3"}
         /\ last'.args[1] = v /\ last'.args[2] = t
         /\ IsPassthroughFd(GuestTable, v)) =>
          LET ksrc == GuestTable.entries[v].file_ops.fd
              kd == kernel_dup(kfds, ksrc)
              held == translate(GuestTable, t)
          IN IF kd.ret < 0
             THEN /\ last'.result = kd.ret
                  /\ tables' = tables
                  /\ kfds' = kfds
             ELSE /\ last'.result = t
                  /\ kd.ret \notin DOMAIN kfds
                  /\ kfds' = (IF held # None THEN kernel_close(kd.kfds, held[1]).kfds
                              ELSE kd.kfds)
                  /\ GuestTable'.entries[t].file_ops = PassthroughFile(kd.ret)
                  /\ \A u \in DOMAIN GuestTable.entries \ {t} :
                       GuestTable'.entries[u] = GuestTable.entries[u]
                  /\ v = t => /\ kd.ret \in DOMAIN kfds'
                              /\ kfds'[kd.ret] = kfds[ksrc]
                              /\ ksrc \notin DOMAIN kfds'
    ]_vars

\* dup2(3, 3) of a passthrough vfd: vfd 3 is on a new kernel FD that is open
C27_Witness ==
  /\ last.op = "dup2"
  /\ last.args = <<FIRST_USER_FD, FIRST_USER_FD>>
  /\ last.result = FIRST_USER_FD
  /\ IsPassthroughFd(GuestTable, FIRST_USER_FD)
  /\ GuestTable.entries[FIRST_USER_FD].file_ops.fd = FIRST_USER_FD + 1
  /\ FIRST_USER_FD + 1 \in DOMAIN kfds
  /\ FIRST_USER_FD \notin DOMAIN kfds

\* ---------------------------------------------------------------------
\* Properties of the *at handlers
\* ---------------------------------------------------------------------
AtSyscalls == StatSyscalls \cup {"openat"}

\* C28: for openat, newfstatat, statx, readlinkat and faccessat2, when the
\* path matches no mount the path pointer reaches the kernel unchanged, and
\* a dirfd other than AT_FDCWD that the FdTable holds as passthrough reaches
\* the kernel as its kernel FD, never raw.
C28_DirfdTranslatedWhenUnmatched ==
  [][ (last'.op \in AtSyscalls /\ resolve(mounts, last'.args[2]) = None) =>
        /\ last'.call # None
        /\ last'.call[1].path = GuestPtr(last'.args[2])
        /\ (last'.args[1] # AT_FDCWD /\ IsPassthroughFd(GuestTable, last'.args[1])) =>
             last'.call[1].dirfd = GuestTable.entries[last'.args[1]].file_ops.fd
    ]_vars

\* ---------------------------------------------------------------------
\* Properties of pselect6
\* ---------------------------------------------------------------------
\* the vfds the guest asks for in the set s of a call with nfds
Requested(s, nfds) == s[1] \cap 0..(nfds - 1)

\* the kernel FDs of the vfds of a set that translate
KernelFdsOf(inner, vs) ==
  {translate(inner, v)[1] : v \in {u \in vs : translate(inner, u) # None}}

\* C29: the injected pselect6 receives, for each non-null guest set, exactly
\* the kernel FDs of the requested vfds that translate, with nfds the
\* largest translated kernel FD plus one; when the kernel returns a value
\* above 0 each guest set is rewritten so that bit v is set exactly when v
\* was requested in that set and the kernel FD of v is ready in the
\* corresponding kernel set.
C29_SelectSetsTranslated ==
  [][ (last'.op = "pselect6" /\ last'.call # None) =>
        LET nfds == last'.args[1]
            sets == last'.args[2]
            call == last'.call[1]
            all == UNION {KernelFdsOf(GuestTable, Requested(sets[i], nfds)) :
                            i \in {j \in 1..3 : sets[j] # None}}
            answer == kernel_pselect6(kfds, call.nfds, call.sets, last'.ready)
        IN /\ \A i \in 1..3 :
                IF sets[i] = None THEN call.sets[i] = None
                ELSE call.sets[i] = Some(KernelFdsOf(GuestTable, Requested(sets[i], nfds)))
           /\ all # {} => \A m \in all : (\A k \in all : k <= m) => call.nfds = m + 1
           /\ last'.ret[1] > 0 =>
                \A i \in {j \in 1..3 : sets[j] # None} :
                  last'.out[i] =
                    Some({v \in Requested(sets[i], nfds) :
                            /\ translate(GuestTable, v) # None
                            /\ translate(GuestTable, v)[1] \in answer.sets[i][1]})
    ]_vars

\* ---------------------------------------------------------------------
\* Properties of the registration of a child
\* ---------------------------------------------------------------------

\* C30: whenever a syscall of a forked child is handled the registry already
\* maps the child's pid to the table its parent registers for it: in every
\* interleaving the child's handler never runs on a freshly created default
\* table, and no entry that a handler of the child allocated is lost because
\* the parent's registration replaces the child's table afterwards.
C30_ChildRegisteredBeforeItsSyscalls ==
  [][ /\ (last'.op \in {"allocate", "deallocate"} /\ last'.pid # 1) =>
           last'.pid \in DOMAIN FD_TABLES
      /\ (last'.op = "fork" /\ last'.args[1] \in DOMAIN FD_TABLES) =>
           \A v \in DOMAIN tables[FD_TABLES[last'.args[1]]].entries :
             /\ v \in DOMAIN tables'[FD_TABLES'[last'.args[1]]].entries
             /\ tables'[FD_TABLES'[last'.args[1]]].entries[v] =
                  tables[FD_TABLES[last'.args[1]]].entries[v]
    ]_vars

\* ---------------------------------------------------------------------
\* Properties of the handlers that translate the FD and inject
\* ---------------------------------------------------------------------
\* C31: no lseek, pread64, pwrite64, readv, writev, mmap, ioctl or fcntl on
\* a vfd whose entry is virtual reaches the kernel with that number as its
\* FD argument: the call is answered by the handler and the kernel runs no
\* syscall on the FD of the same number.
C31_VirtualFdNeverReachesKernel ==
  (last.op \in FdSyscalls /\ IsVirtualFd(GuestTable, last.args[1])) =>
    /\ last.ret # None
    /\ last.reached # last.args[1]

\* ---------------------------------------------------------------------
\* Properties of the kernel FDs the handlers obtain
\* ---------------------------------------------------------------------
\* some entry of the table holds kernel FD k
HeldBy(inner, k) ==
  \E v \in DOMAIN inner.entries : kernel_fd(inner.entries[v]) = Some(k)

\* C32: no kernel FD leaks.  When a handler returns its answer, every
\* kernel FD it obtained from an injected openat, dup, fcntl(F_DUPFD),
\* socket or pipe2 is held by an entry of the table, and every kernel FD an
\* entry held before the call and that no injected close has closed is
\* still held by an entry.
C32_NoKernelFdLeak ==
  [][ last'.ret # None =>
        /\ \A k \in DOMAIN kfds' \ DOMAIN kfds : HeldBy(GuestTable', k)
        /\ \A k \in DOMAIN kfds' \cap DOMAIN kfds :
             HeldBy(GuestTable, k) => HeldBy(GuestTable', k)
    ]_vars

\* ---------------------------------------------------------------------
\* Properties of two threads that share the table
\* ---------------------------------------------------------------------
\* C33: with two threads sharing one FdTable, in every interleaving of
\* their handlers the table never maps a vfd to a kernel FD that a handler
\* has closed: while a dup2 or dup3 onto new is in progress, what a
\* concurrent handler gets from translate(new) is a kernel FD that is open,
\* the one held before the call or the newly installed one.
C33_TranslateNeverClosedFd ==
  /\ \A v \in DOMAIN GuestTable.entries :
       translate(GuestTable, v) # None => translate(GuestTable, v)[1] \in DOMAIN kfds
  /\ (last.op = "lseek" /\ last.ret # None) => last.result # -EBADF

\* ---------------------------------------------------------------------
\* Properties of the free list
\* ---------------------------------------------------------------------
\* the free list holds no vfd of the table and no vfd twice
FreeListSound(inner) ==
  /\ \A i \in 1..Len(inner.free_fds) : inner.free_fds[i] \notin DOMAIN inner.entries
  /\ \A i, j \in 1..Len(inner.free_fds) : i # j => inner.free_fds[i] # inner.free_fds[j]

\* C34: after any sequence of allocate, allocate_min, allocate_at,
\* deallocate, duplicate and duplicate_at, the vfd that allocate,
\* allocate_min or duplicate returns was not in the table at the moment of
\* the call, so every entry that was live stays as it was; and the free list
\* never contains a vfd that is in the table, nor the same vfd twice.
C34_AllocateNeverReplaces ==
  [][ /\ FreeListSound(tables[1]) /\ FreeListSound(tables'[1])
      /\ (last'.op \in {"allocate", "allocate_min", "duplicate"} /\ last'.ret # None) =>
           /\ last'.ret[1] \notin DOMAIN tables[1].entries
           /\ \A v \in DOMAIN tables[1].entries :
                /\ v \in DOMAIN tables'[1].entries
                /\ tables'[1].entries[v] = tables[1].entries[v]
    ]_vars

\* allocate returned a freed vfd below a live one installed by allocate_at
\* or allocate_min while another freed vfd is still on the free list
C34_Witness ==
  /\ last.op = "allocate"
  /\ last.ret[1] < MaxVfd
  /\ MaxVfd \in DOMAIN tables[1].entries
  /\ tables[1].free_fds # <<>>
  /\ tables[1].next_vfd = MaxVfd + 1

\* ---------------------------------------------------------------------
\* Properties of concurrent allocations
\* ---------------------------------------------------------------------
\* C35: when two threads that share one FdTable call allocate, duplicate or
\* allocate_min at the same time, in every interleaving they receive two
\* distinct vfds and both entries are in the table afterwards: no
\* allocation is lost or overwritten.
C35_ConcurrentAllocationsDistinct ==
  (\A t \in Threads : hist[t].pc = "done" /\ hist[t].ret # None) =>
    /\ hist[1].ret # hist[2].ret
    /\ \A t \in Threads :
         /\ hist[t].ret[1] \in DOMAIN tables[1].entries
         /\ tables[1].entries[hist[t].ret[1]] = hist[t].entry[1]

\* a duplicate and an allocate overlapped: the allocate ran between the two
\* sections of the duplicate, and both have returned
C35_Witness ==
  /\ \A t \in Threads : hist[t].pc = "done" /\ hist[t].ret # None
  /\ last.op = "duplicate"
  /\ hist[3 - last.pid].seen = None
  /\ hist[3 - last.pid].ret[1] \notin DOMAIN hist[last.pid].seen[1].entries
  /\ hist[1].entry # hist[2].entry

\* ---------------------------------------------------------------------
\* Properties of concurrent creates
\* ---------------------------------------------------------------------
\* C36: when two handlers create files at the same time on the shared
\* connection, each new dentry references the inode row inserted by its own
\* create, and once both have returned every non-root inode has a dentry;
\* if both create the same path exactly one dentry for it exists and no
\* inode is left without a dentry.
C36_ConcurrentCreatesKeepStore ==
  /\ \A t \in Threads :
       (hist.tasks[t].pc = "done" /\ hist.tasks[t].own # None /\ hist.tasks[t].ret # None) =>
         \E d \in fs_dentry :
           /\ d.name = file_name(hist.tasks[t].path)[1]
           /\ d.parent_ino = hist.tasks[t].parent_ino
           /\ d.ino = hist.tasks[t].own[1]
  /\ (\A t \in Threads : hist.tasks[t].pc \in {"idle", "done"}) =>
       /\ \A ino \in DOMAIN fs_inode \ {ROOT_INO} : \E d \in fs_dentry : d.ino = ino
       /\ \A d, e \in fs_dentry :
            (d.parent_ino = e.parent_ino /\ d.name = e.name) => d = e

\* the byte range a finished write stored its buffer at
WrittenRange(task) == task.offset .. (task.offset + Len(task.buf) - 1)

\* the bytes the rows of fs_data hold for position pos of the file
StoredAt(data, ino, pos) ==
  {r.data[pos - r.offset + 1] : r \in {x \in data : /\ x.ino = ino
                                                    /\ x.offset <= pos
                                                    /\ pos < x.offset + Len(x.data)}}

\* both writes have returned, and one was issued while the other was
\* under way
BothWritten ==
  /\ \A t \in Threads : hist.tasks[t] # Idle /\ hist.tasks[t].pc = "done"
  /\ \E t \in Threads : hist.tasks[t].concurrent

\* C37: two writes issued concurrently through one file-object store their
\* buffers at disjoint byte ranges, every written byte is still stored when
\* both have returned, and the offset ends at its initial value plus the
\* sum of the two lengths.
C37_ConcurrentWritesDisjoint ==
  BothWritten =>
    /\ WrittenRange(hist.tasks[1]) \cap WrittenRange(hist.tasks[2]) = {}
    /\ \A t \in Threads :
         \A i \in 1..Len(hist.tasks[t].buf) :
           StoredAt(fs_data, FileIno, hist.tasks[t].offset + i - 1)
             = {hist.tasks[t].buf[i]}
    /\ objs[FileObj].offset
         = hist.initial + Len(hist.tasks[1].buf) + Len(hist.tasks[2].buf)

\* the read of the whole file: from offset 0 into a buffer of st_size bytes
ReadWhole == SqliteFile_read(fs_data, [objs[FileObj] EXCEPT !.offset = 0],
                             fs_inode[FileIno].size)

\* C38: after any sequence of seeks and writes, a read from offset 0 with a
\* buffer of st_size bytes returns exactly st_size bytes.
C38_ChunksAccountForSize ==
  ReadWhole.ret = Some(fs_inode[FileIno].size)

\* C39: when a getdents64 call on a virtual directory FD returns 0, every
\* entry the directory held at the first call on the FD has been delivered
\* by some call on the FD, whatever the sizes of the guest's buffers.
C39_GetdentsDropsNoEntry ==
  \A v \in DOMAIN hist :
    (/\ last.op = "getdents64"
     /\ last.args[1] = v
     /\ IsVirtualDirFd(v)
     /\ last.result = 0) =>
      hist[v].present \subseteq hist[v].delivered

\* the offset observed through vfd v of pid p
OffsetVia(p, v) == objs[GuestInner(p).entries[v].file_ops.obj].offset

\* the offset a read, write or seek that returned ret leaves, from the
\* offset before it
OffsetAfter(op, before, ret) ==
  IF ret = None \/ ret[1] < 0 THEN before
  ELSE IF op = "seek" THEN ret[1] ELSE before + ret[1]

\* C40: fork copies the vfd-to-entry mapping only: no file-object is made,
\* and the child's entry for every virtual vfd of the parent refers to the
\* file-object of the parent's entry; a read, write or seek through an
\* entry moves the offset observed through every entry on that file-object,
\* in whichever process it is.
C40_ForkSharesFileObject ==
  [][ /\ (last'.op = "fork" /\ last'.ret # None /\ last'.ret[1] > 0) =>
           /\ objs' = objs
           /\ \A v \in DOMAIN GuestInner(last'.pid).entries :
                IsVirtualFd(GuestInner(last'.pid), v) =>
                  /\ IsVirtualFd(tables'[FD_TABLES'[last'.ret[1]]], v)
                  /\ tables'[FD_TABLES'[last'.ret[1]]].entries[v].file_ops
                       = GuestInner(last'.pid).entries[v].file_ops
      /\ (last'.op \in {"read", "write", "seek"}) =>
           \A q \in DOMAIN FD_TABLES, w \in ForkVfds :
             (/\ IsVirtualFd(GuestInner(q), w)
              /\ GuestInner(q).entries[w].file_ops
                   = GuestInner(last'.pid).entries[last'.args[1]].file_ops) =>
               objs'[tables'[FD_TABLES'[q]].entries[w].file_ops.obj].offset
                 = OffsetAfter(last'.op, OffsetVia(last'.pid, last'.args[1]), last'.ret)
    ]_vars

\* the forked child 2 wrote two bytes through the vfd 3 it inherited, and
\* the offset observed through vfd 3 of the parent, in a table of its own,
\* is the child's
C40_Witness ==
  /\ last.op = "write" /\ last.pid = 2 /\ last.args[1] = FIRST_USER_FD
  /\ last.ret = Some(2)
  /\ <<1, 2>> \notin kin
  /\ FD_TABLES[1] # FD_TABLES[2]
  /\ IsVirtualFd(GuestInner(1), FIRST_USER_FD)
  /\ GuestInner(1).entries[FIRST_USER_FD].file_ops
       = GuestInner(2).entries[FIRST_USER_FD].file_ops
  /\ OffsetVia(1, FIRST_USER_FD) = 3
  /\ OffsetVia(2, FIRST_USER_FD) = 3

====
